---- MODULE Spec2Model ----
(***************************************************************************)
(* Verification model of the anchor-agent backend.                         *)
(*                                                                         *)
(*  Spec        the chat store (table chats) and the chat-turn handlers    *)
(*              POST /api/chat/text and POST /api/chat/audio, with the     *)
(*              browser client's chat id threading and the chat delete     *)
(*              endpoint.  A turn is a sequence of awaited steps; turns    *)
(*              of different requests interleave at every await.           *)
(*  BridgeSpec  one video stage of a turn: generateVideo, the ComfyUI      *)
(*              bridge it drives and the job engine behind the bridge.     *)
(*  TurnSpec    one chat turn in detail: persona resolution, reply         *)
(*              generation with its news crawl, the audio and video        *)
(*              stages, saveConversation, URL signing and the response.    *)
(*  CacheSpec   getPersonas and its cache under concurrent callers.        *)
(*  ParseSpec   the parsing of a crawl payload, over bounded payloads.     *)
(*  ProfileSpec saveProfile and deleteProfile calls on table profiles.     *)
(*  KeySpec     the audio sign and proxy endpoints, over bounded keys.     *)
(*  ClientSpec  the browser client's chat state on a loaded chat.          *)
(*  PollSpec    waitForCrawlCompletion, the polling of a crawl snapshot.   *)
(*  SliceSpec   the browser client's profile state and its requests.       *)
(***************************************************************************)
EXTENDS Integers, Sequences, FiniteSets, TLC

(***************************************************************************)
(* Bounds of the model.                                                    *)
(***************************************************************************)
MaxTurns == 2

Turns == 1..MaxTurns

(***************************************************************************)
(* Identifiers.  "null" stands for JavaScript null / undefined.            *)
(***************************************************************************)
Null == "null"
Users == {"u1", "u2"}
ClientUser == "u1"
SeedChatId == "c0"
UuidPool == <<"c1", "c2", "c3", "c4", "c5", "c6">>

\* randomUUID(): every call yields an id nobody has seen before.
RandomUUID(t) == UuidPool[t]

(***************************************************************************)
(* Table personas (rows ordered by name, id and name are not null).        *)
(***************************************************************************)
PersonaRows == << [id |-> "p1", name |-> "Ava"], [id |-> "p2", name |-> "User"] >>
NoPersona == [id |-> Null, name |-> Null]
PersonaIdInputs == {Null, "p2", "p9"}
PersonaNameInputs == {Null, "User", "Zed"}

\* getPersonas(): the rows, or [] when the read fails and nothing is cached.
GetPersonasResults == {PersonaRows, << >>}

\* Array.prototype.find over the persona list: the first row that passes
\* the test; undefined becomes NoPersona.
GetPersonaById(plist, personaId) ==
  LET hits == {i \in 1..Len(plist) : plist[i].id = personaId}
  IN IF hits = {} THEN NoPersona
     ELSE plist[CHOOSE i \in hits : \A j \in hits : i <= j]

GetPersonaByName(plist, personaName) ==
  LET hits == {i \in 1..Len(plist) : plist[i].name = personaName}
  IN IF hits = {} THEN NoPersona
     ELSE plist[CHOOSE i \in hits : \A j \in hits : i <= j]

PersonaOfId(personaId) == GetPersonaById(PersonaRows, personaId)

(***************************************************************************)
(* Messages.  content is the number of the turn that produced the text.    *)
(* The media references of a message (audioUrl, videoUrl) are copied       *)
(* through by saveConversation and play no part in the chat store's        *)
(* behaviour; the chat model leaves them out of the rows, the followed     *)
(* turn adds them (WithMedia).                                             *)
(***************************************************************************)
NewMessage(t) == [role |-> "user", content |-> t]

\* Mutant: the assistant message reads persona fields that do not exist.
AssistantMessage_NoPersona(t, selectedPersona) ==
  [role |-> "assistant", content |-> t, persona |-> Null, personaId |-> Null]

AssistantMessage(t, selectedPersona) ==
  [role |-> "assistant", content |-> t,
   persona |-> selectedPersona.name, personaId |-> selectedPersona.id]

SeedMessages == << NewMessage(0), AssistantMessage(0, PersonaRows[1]) >>

SeedChat == [user_id |-> ClientUser, persona_id |-> "p1", messages |-> SeedMessages]

VARIABLES
  chats,          \* table chats: chat id -> row, defined for the stored chats
  turn,           \* per request: position in the handler and its locals
  currentChatId,  \* chatSlice state.currentChatId of the browser client
  isProcessing,   \* chatSlice state.isProcessing of the browser client
  chatDeleted     \* history: a DELETE /api/chats request has removed a chat

chatVars == <<chats, turn, currentChatId, isProcessing, chatDeleted>>

(***************************************************************************)
(* State of one generateVideo call, its ComfyUI bridge and the engine.     *)
(***************************************************************************)
VARIABLES
  gv,             \* position in the async body of generateVideo
  outcome,        \* the promise returned by generateVideo
  settledBy,      \* what settled the promise
  ws,             \* comfyUI.comfyUI, the bridge's WebSocket
  promptId,       \* comfyUI.promptId
  connTimer,      \* waitForConnection's timeout is armed
  job,            \* the engine's job for the submitted prompt
  interrupt,      \* the request sent by interupt()
  saveTask,       \* position in the async onSaveCallback
  saveCalls,      \* invocations of onSaveCallback
  msgCalls,       \* invocations of onMessageCallback
  videosStored,   \* videos uploadVideoFile has stored
  queueCalls,     \* calls of comfyUI.queue
  lastEvent,      \* the last message the socket delivered to onmessage
  firstTerminal,  \* the first terminal event dispatched to a callback
  foreignCount,   \* delivered messages that are not about this bridge's job
  responded       \* the turn's handler got past the video stage

bridgeVars ==
  <<gv, outcome, settledBy, ws, promptId, connTimer, job, interrupt, saveTask,
    saveCalls, msgCalls, videosStored, queueCalls, lastEvent, firstTerminal,
    foreignCount, responded>>

(***************************************************************************)
(* State of one chat turn followed stage by stage.                         *)
(***************************************************************************)
VARIABLES
  req,            \* req.body of the request
  h,              \* the handler: its position, its locals and its response
  objects         \* media objects stored for the turn (S3 keys, local files)

stageVars == <<req, h, objects>>

(***************************************************************************)
(* DatabaseService.getPersonas and the personas table.                     *)
(***************************************************************************)
VARIABLES
  personasCache,          \* this.personasCache
  lastPersonasCacheTime,  \* this.lastPersonasCacheTime
  clock,                  \* Date.now()
  personasTable,          \* rows of table personas, ordered by name
  call,                   \* the getPersonas calls
  lastLoaded              \* the list the latest successful read returned

cacheVars ==
  <<personasCache, lastPersonasCacheTime, clock, personasTable, call, lastLoaded>>

(***************************************************************************)
(* Parsing of one crawl payload.                                           *)
(***************************************************************************)
VARIABLES
  payload,        \* the text of the response
  parser,         \* which parsing code ran on it
  parsed          \* what that code did

parseVars == <<payload, parser, parsed>>

(***************************************************************************)
(* Table profiles and the calls that write it.                             *)
(***************************************************************************)
VARIABLES
  profiles,       \* rows of table profiles
  pcall           \* the saveProfile and deleteProfile calls

profileVars == <<profiles, pcall>>

(***************************************************************************)
(* One request to a media endpoint.                                        *)
(***************************************************************************)
VARIABLES
  mkey,           \* the key in the request path
  served          \* what the endpoint did with it

keyVars == <<mkey, served>>

(***************************************************************************)
(* The browser client's chat state and its requests on one loaded chat.    *)
(***************************************************************************)
VARIABLES
  chatSlice,      \* messages, currentChatId, isProcessing of the chat slice
  chatTable,      \* the messages column of the loaded chat's row
  sendReq,        \* per turn: its sendTextMessage / sendAudioMessage request
  loadReq         \* per turn: the loadChat its UPDATE event triggers

clientVars == <<chatSlice, chatTable, sendReq, loadReq>>

(***************************************************************************)
(* One call of waitForCrawlCompletion.                                     *)
(***************************************************************************)
VARIABLES
  wait            \* position in the loop, seconds elapsed, result

pollVars == <<wait>>

(***************************************************************************)
(* The browser client's profile state, its request and the user's row.     *)
(***************************************************************************)
VARIABLES
  profileSlice,   \* state of the profile slice
  profileReq,     \* the loadProfile / saveProfile / deleteProfile in flight
  profileRow      \* the row of table profiles of the client's user

sliceVars == <<profileSlice, profileReq, profileRow>>

furtherVars == <<clientVars, pollVars, sliceVars>>

unitVars == <<cacheVars, parseVars, profileVars, keyVars, furtherVars>>
nonParseVars ==
  <<chatVars, bridgeVars, stageVars, cacheVars, profileVars, keyVars, furtherVars>>
nonProfileVars ==
  <<chatVars, bridgeVars, stageVars, cacheVars, parseVars, keyVars, furtherVars>>
nonKeyVars ==
  <<chatVars, bridgeVars, stageVars, cacheVars, parseVars, profileVars, furtherVars>>
baseVars ==
  <<chatVars, bridgeVars, stageVars, cacheVars, parseVars, profileVars, keyVars>>
nonClientVars == <<baseVars, pollVars, sliceVars>>
nonPollVars == <<baseVars, clientVars, sliceVars>>
nonSliceVars == <<baseVars, clientVars, pollVars>>

nonChatVars == <<bridgeVars, stageVars, unitVars>>
nonBridgeVars == <<chatVars, stageVars, unitVars>>
nonCacheVars ==
  <<chatVars, bridgeVars, stageVars, parseVars, profileVars, keyVars, furtherVars>>
\* everything a single followed turn leaves alone (it writes table chats)
nonStageVars ==
  <<turn, currentChatId, isProcessing, chatDeleted, bridgeVars, unitVars>>

vars == <<chatVars, bridgeVars, stageVars, unitVars>>

\* this.promptId = -1
NoPromptId == "-1"
\* prompt ids the engine issues: this bridge's job and some other client's
JobId == "j1"
ForeignJobId == "j2"
\* nodes: { api_save: ['131'] }
ApiSave == {"131"}
\* the output nodes of the workflow: the save node and one more
WorkflowNodes == {"131", "7"}

NoEvent == [type |-> Null, prompt_id |-> Null, node |-> Null]
NoJob == [state |-> "none", saveValid |-> TRUE, executed |-> {}]

\* Before generateVideo is called no bridge exists.
BridgeIdle ==
  /\ gv = "start" /\ outcome = "pending" /\ settledBy = Null
  /\ ws = "none" /\ promptId = NoPromptId /\ connTimer = FALSE
  /\ job = NoJob /\ interrupt = "none" /\ saveTask = "idle"
  /\ saveCalls = 0 /\ msgCalls = 0 /\ videosStored = 0 /\ queueCalls = 0
  /\ lastEvent = NoEvent /\ firstTerminal = Null
  /\ foreignCount = 0 /\ responded = FALSE

NoExisting == [found |-> FALSE, messages |-> << >>]

IdleTurn ==
  [pc |-> "idle", client |-> FALSE, received |-> FALSE,
   uid |-> Null, chatId |-> Null, selectedPersona |-> NoPersona,
   existingChat |-> NoExisting, savedChat |-> Null, status |-> 0]

ChatInit ==
  /\ chats \in {<< >>, (SeedChatId :> SeedChat)}
  /\ turn = [t \in Turns |-> IdleTurn]
  /\ currentChatId = Null
  /\ isProcessing = FALSE
  /\ chatDeleted = FALSE

\* No turn of the chat model is in flight.
ChatIdle ==
  /\ chats = << >>
  /\ turn = [t \in Turns |-> IdleTurn]
  /\ currentChatId = Null
  /\ isProcessing = FALSE
  /\ chatDeleted = FALSE

\* No request has arrived at the followed handler.
NoReq ==
  [endpoint |-> Null, uid |-> Null, chatId |-> Null, personaId |-> Null,
   personaName |-> Null, locations |-> {}, videoEnabled |-> FALSE]

NoResponse ==
  [status |-> 0, aiResponse |-> Null, audioUrl |-> Null,
   userAudioUrl |-> Null, videoUrl |-> Null, chatId |-> Null]

\* let newsContext = ''
NoNewsContext == [kind |-> "none", articles |-> {}, label |-> {}]

IdleHandler ==
  [pc |-> "idle", personas |-> << >>, chat |-> NoPersona,
   selectedPersona |-> NoPersona, validLocations |-> {},
   newsResults |-> << >>, newsContext |-> NoNewsContext,
   aiResponse |-> Null, currentChatId |-> Null,
   speech |-> "none", audioUrl |-> Null, userAudioUrl |-> Null,
   videoUrl |-> Null, videoStage |-> "none",
   saved |-> "none", savedChat |-> Null, signFailedAt |-> Null,
   failedAt |-> Null,
   res |-> NoResponse]

StageIdle == req = NoReq /\ h = IdleHandler /\ objects = {}

\* getPersonas calls that can be in flight together
MaxCalls == 2
Calls == 1..MaxCalls
\* the clock runs over 0..MaxClock, in units of 12 hours
MaxClock == 3
\* this.PERSONAS_CACHE_TTL = 24 hours
PERSONAS_CACHE_TTL == 2

\* this.personasCache = null
NoCache == [loaded |-> FALSE, list |-> << >>]
IdleCall == [pc |-> "idle", now |-> 0, how |-> Null, result |-> << >>]

\* The service as constructed, nothing called.
CacheIdle ==
  /\ personasCache = NoCache /\ lastPersonasCacheTime = 0
  /\ clock = 0 /\ personasTable = PersonaRows
  /\ call = [c \in Calls |-> IdleCall]
  /\ lastLoaded = NoCache

\* fragments a payload is made of, at most
MaxRecords == 3

\* No payload has been received.
ParseIdle ==
  /\ payload = << >> /\ parser = "none"
  /\ parsed = [outcome |-> "returned", records |-> << >>]

\* saveProfile / deleteProfile calls that can be in flight together
MaxProfileCalls == 3
ProfileCalls == 1..MaxProfileCalls

IdleProfileCall ==
  [pc |-> "idle", op |-> Null, uid |-> Null,
   args |-> [display_name |-> Null, email |-> Null, persona_id |-> Null],
   existingProfile |-> FALSE]

\* An empty table, nothing called.
ProfileIdle ==
  /\ profiles = {} /\ pcall = [c \in ProfileCalls |-> IdleProfileCall]

\* tokens of a key, at most
MaxKeyLen == 6

NotServed == [by |-> "none", status |-> 0, signed |-> FALSE, fetched |-> FALSE]

\* No media request has arrived.
KeyIdle == mkey = << >> /\ served = NotServed

\* turns the client sends, at most
MaxSends == 2

IdleSend == [pc |-> "idle", kind |-> "text", ok |-> FALSE]
IdleLoad == [pc |-> "idle", ok |-> FALSE, messages |-> << >>]

\* The client has no chat loaded and nothing in flight.
ClientIdle ==
  /\ chatSlice = [messages |-> << >>, currentChatId |-> Null,
                  isProcessing |-> FALSE]
  /\ chatTable = << >>
  /\ sendReq = [n \in 1..MaxSends |-> IdleSend]
  /\ loadReq = [n \in 1..MaxSends |-> IdleLoad]

\* const maxWaitTime = 45000; const pollInterval = 3000 (in seconds)
maxWaitTime == 45
pollInterval == 3

WaitIdle ==
  [pc |-> "idle", elapsed |-> 0,
   result |-> [outcome |-> "returned", records |-> << >>]]

\* waitForCrawlCompletion has not been called.
PollIdle == wait = WaitIdle

\* initialState of the profile slice; getUserId() yields the stored id
InitialProfileState ==
  [userId |-> ClientUser, displayName |-> "", email |-> "",
   personaId |-> Null, isSavedToSupabase |-> FALSE, isLoading |-> FALSE]

NoProfileArgs == [displayName |-> "", email |-> "", personaId |-> Null]

NoProfileReq ==
  [kind |-> Null, pc |-> "idle", args |-> NoProfileArgs, status |-> 0,
   profile |-> [uid |-> "undefined", displayName |-> "undefined",
                email |-> "undefined", personaId |-> "undefined",
                isSavedToSupabase |-> FALSE]]

\* table profiles has no row of the client's user, or it has this one
NoProfileRow ==
  [found |-> FALSE, user_id |-> Null, display_name |-> Null, email |-> Null,
   persona_id |-> Null, is_saved_to_supabase |-> FALSE]

SeedProfileRow ==
  [found |-> TRUE, user_id |-> ClientUser, display_name |-> "Ann",
   email |-> "a@b.c", persona_id |-> Null, is_saved_to_supabase |-> TRUE]

\* The profile slice is as initialised and nothing is in flight.
SliceIdle ==
  /\ profileSlice = InitialProfileState
  /\ profileReq = NoProfileReq
  /\ profileRow = NoProfileRow

FurtherIdle == ClientIdle /\ PollIdle /\ SliceIdle

UnitIdle == CacheIdle /\ ParseIdle /\ ProfileIdle /\ KeyIdle /\ FurtherIdle

(***************************************************************************)
(* POST /api/chat/text and POST /api/chat/audio.  A handler is cut at the  *)
(* awaits that touch the chat store: persona resolution (reads the chat),  *)
(* reply and media generation followed by saveConversation's select, and   *)
(* saveConversation's write followed by the response.                      *)
(***************************************************************************)

\* The locals of a finished handler are gone; the record keeps the request
\* and the response.
Finish(T, status, savedChat) ==
  [T EXCEPT !.pc = "done", !.status = status, !.savedChat = savedChat,
            !.selectedPersona = NoPersona, !.existingChat = NoExisting]

Fail500(T) == Finish(T, 500, Null)

\* const currentChatId = chatId || randomUUID()
CurrentChatId(t, T) == IF T.chatId # Null THEN T.chatId ELSE RandomUUID(t)

\* Mutant: the response names only the chat that was stored.
ResponseChatId_SavedOnly(t, T) == T.savedChat

\* chatId: savedChat?.id || currentChatId
ResponseChatId(t, T) == IF T.savedChat # Null THEN T.savedChat ELSE CurrentChatId(t, T)

\* select persona_id, personas(...) from chats where id = chatId and
\* user_id = uid, .single(): the joined persona, or nothing on error
ChatPersona(uid, chatId) ==
  IF chatId \in DOMAIN chats /\ chats[chatId].user_id = uid
    THEN {PersonaOfId(chats[chatId].persona_id), NoPersona}
    ELSE {NoPersona}

\* Lookup by id, else by name; then the persona stored on the chat; then
\* the first persona of the list.
SelectPersona(personaId, personaName, chatId, fromChat, plist) ==
  LET byInput   == IF personaId # Null THEN GetPersonaById(plist, personaId)
                   ELSE IF personaName # Null
                          THEN GetPersonaByName(plist, personaName)
                          ELSE NoPersona
      afterChat == IF byInput = NoPersona /\ chatId # Null
                     THEN fromChat ELSE byInput
  IN IF afterChat # NoPersona THEN afterChat
     ELSE IF Len(plist) > 0 THEN plist[1] ELSE NoPersona

\* Request arrival up to the resolved persona; without a persona the turn
\* ends with HTTP 500.
BeginTurn(t, uid, chatId, personaId, personaName, client) ==
  /\ turn[t].pc = "idle"
  /\ \A o \in 1..(t - 1) : turn[o].pc # "idle"
  /\ \E fromChat \in ChatPersona(uid, chatId), plist \in GetPersonasResults :
       LET selected == SelectPersona(personaId, personaName, chatId, fromChat, plist)
           T == [IdleTurn EXCEPT !.client = client, !.uid = uid, !.chatId = chatId]
       IN turn' = [turn EXCEPT ![t] =
                     IF selected = NoPersona
                       THEN Fail500(T)
                       ELSE [T EXCEPT !.pc = "generate",
                                      !.selectedPersona = selected]]

\* The chat ids a request can carry: none, the id of a stored chat, or one
\* that a response has named.
KnownChatIds ==
  {Null, SeedChatId} \cup DOMAIN chats
    \cup {ResponseChatId(o, turn[o]) : o \in {x \in Turns : turn[x].status = 200}}

\* A request sent by anything but the modelled browser client.
ApiRequest(t) ==
  \E uid \in Users, chatId \in KnownChatIds,
     personaId \in PersonaIdInputs, personaName \in PersonaNameInputs :
    /\ BeginTurn(t, uid, chatId, personaId, personaName, FALSE)
    /\ UNCHANGED <<chats, currentChatId, isProcessing, chatDeleted, nonChatVars>>

\* handleSendText / handleRecord of the browser client and the pending
\* reducer: the request carries the client's current chat id.
ClientSend(t) ==
  /\ ~isProcessing
  /\ \E i \in 1..Len(PersonaRows) :
       BeginTurn(t, ClientUser, currentChatId, PersonaRows[i].id,
                 PersonaRows[i].name, TRUE)
  /\ isProcessing' = TRUE
  /\ UNCHANGED <<chats, currentChatId, chatDeleted, nonChatVars>>

(***************************************************************************)
(* saveConversation: select, then update or insert.                        *)
(***************************************************************************)
TurnMessages(t, T) == << NewMessage(t), AssistantMessage(t, T.selectedPersona) >>

\* Mutant: the select filters on the chat id only.
SelectExisting_AnyOwner(uid, chatId) ==
  IF chatId \in DOMAIN chats
    THEN [found |-> TRUE, messages |-> chats[chatId].messages]
    ELSE NoExisting

\* select messages, persona_id from chats where id = chatId and user_id = uid
\* (saveConversation; getChatHistory and getChat filter the same way)
SelectExisting(uid, chatId) ==
  IF chatId \in DOMAIN chats /\ chats[chatId].user_id = uid
    THEN [found |-> TRUE, messages |-> chats[chatId].messages]
    ELSE NoExisting

\* History read, transcription (audio endpoint), reply generation (fatal on
\* failure), the audio and video stages, and saveConversation up to the
\* result of its select; a select error ends saveConversation with null.
GenerateAndSelect(t) ==
  /\ turn[t].pc = "generate"
  /\ \E generated \in BOOLEAN, selectError \in BOOLEAN :
       turn' = [turn EXCEPT ![t] =
                  IF ~generated THEN Fail500(@)
                  ELSE IF selectError THEN Finish(@, 200, Null)
                  ELSE [@ EXCEPT !.pc = "saveWrite",
                                 !.existingChat =
                                    SelectExisting(turn[t].uid,
                                                   CurrentChatId(t, turn[t]))]]
  /\ UNCHANGED <<chats, currentChatId, isProcessing, chatDeleted, nonChatVars>>

\* Mutant: the update stores only the two new messages.
UpdatedMessages_Overwrite(t, T) == TurnMessages(t, T)

\* Mutant: the update puts the two new messages in front of the stored ones.
UpdatedMessages_Prepend(t, T) == TurnMessages(t, T) \o T.existingChat.messages

UpdatedMessages(t, T) == T.existingChat.messages \o TurnMessages(t, T)

\* update chats set messages = ... where id = chatId and user_id = uid
\* (.single() reports an error when no row matched)
UpdateChat(t, T) ==
  /\ CurrentChatId(t, T) \in DOMAIN chats
  /\ chats[CurrentChatId(t, T)].user_id = T.uid
  /\ chats' = [chats EXCEPT ![CurrentChatId(t, T)].messages = UpdatedMessages(t, T)]

\* Mutant: the insert seeds the chat with the assistant message only.
InsertChat_AssistantOnly(t, T) ==
  /\ CurrentChatId(t, T) \notin DOMAIN chats
  /\ chats' = chats @@ (CurrentChatId(t, T) :>
                          [user_id |-> T.uid,
                           persona_id |-> T.selectedPersona.id,
                           messages |-> << AssistantMessage(t, T.selectedPersona) >>])

\* insert into chats (id, user_id, persona_id, title, messages); id is the
\* primary key
InsertChat(t, T) ==
  /\ CurrentChatId(t, T) \notin DOMAIN chats
  /\ chats' = chats @@ (CurrentChatId(t, T) :>
                          [user_id |-> T.uid,
                           persona_id |-> T.selectedPersona.id,
                           messages |-> TurnMessages(t, T)])

WriteChat(t, T) ==
  IF T.existingChat.found THEN UpdateChat(t, T) ELSE InsertChat(t, T)

\* The write of saveConversation (the chat row, or null on any error), URL
\* signing (failures are swallowed) and res.json.
WriteAndRespond(t) ==
  /\ turn[t].pc = "saveWrite"
  /\ \/ /\ WriteChat(t, turn[t])
        /\ turn' = [turn EXCEPT ![t] = Finish(@, 200, CurrentChatId(t, turn[t]))]
     \/ /\ UNCHANGED chats
        /\ turn' = [turn EXCEPT ![t] = Finish(@, 200, Null)]
  /\ UNCHANGED <<currentChatId, isProcessing, chatDeleted, nonChatVars>>

(***************************************************************************)
(* sendTextMessage / sendAudioMessage fulfilled and rejected reducers.     *)
(***************************************************************************)
SendFulfilled(cur, payloadChatId) ==
  IF payloadChatId # Null /\ cur = Null THEN payloadChatId ELSE cur

ClientReceive(t) ==
  /\ turn[t].pc = "done"
  /\ turn[t].client
  /\ ~turn[t].received
  /\ turn' = [turn EXCEPT ![t].received = TRUE]
  /\ isProcessing' = FALSE
  /\ currentChatId' = IF turn[t].status = 200
                        THEN SendFulfilled(currentChatId,
                                           ResponseChatId(t, turn[t]))
                        ELSE currentChatId
  /\ UNCHANGED <<chats, chatDeleted, nonChatVars>>

(***************************************************************************)
(* DELETE /api/chats/:uid/:chatId                                          *)
(***************************************************************************)
DeleteRows(uid, chatId) ==
  [c \in {d \in DOMAIN chats : ~(d = chatId /\ chats[d].user_id = uid)}
     |-> chats[c]]

\* A request that names no stored chat deletes nothing and changes nothing;
\* the requests modelled name a stored chat, for its owner or for another
\* user.
DeleteChat ==
  /\ \E uid \in Users, chatId \in DOMAIN chats :
       chats' = DeleteRows(uid, chatId)
  /\ chatDeleted' = (chatDeleted \/ chats' # chats)
  /\ UNCHANGED <<turn, currentChatId, isProcessing, nonChatVars>>

Init == ChatInit /\ BridgeIdle /\ StageIdle /\ UnitIdle

Next ==
  \/ \E t \in Turns : ApiRequest(t)
  \/ \E t \in Turns : ClientSend(t)
  \/ \E t \in Turns : GenerateAndSelect(t)
  \/ \E t \in Turns : WriteAndRespond(t)
  \/ \E t \in Turns : ClientReceive(t)
  \/ DeleteChat

Spec == Init /\ [][Next]_vars

(***************************************************************************)
(* Properties of the chat store.                                           *)
(***************************************************************************)
StoredMessages(store, chatId) ==
  IF chatId \in DOMAIN store THEN store[chatId].messages ELSE << >>

Responds200(t) ==
  turn[t].pc # "done" /\ turn'[t].pc = "done" /\ turn'[t].status = 200

\* messages holds the user message of turn t directly followed by the
\* assistant message of turn t
HoldsTurn(messages, t) ==
  \E i \in 1..(Len(messages) - 1) :
    /\ messages[i].role = "user" /\ messages[i].content = t
    /\ messages[i + 1].role = "assistant" /\ messages[i + 1].content = t

C2_AlwaysCreatesOrAppends ==
  [][\A t \in Turns :
       (turn[t].pc = "saveWrite" /\ turn'[t].pc = "done") =>
         LET id == CurrentChatId(t, turn[t]) IN
           /\ id \in DOMAIN chats'
           /\ chats'[id].messages =
                turn[t].existingChat.messages
                  \o << NewMessage(t),
                        AssistantMessage(t, turn[t].selectedPersona) >>]_vars

\* C2 (amended): a saveConversation call that returns the chat row has
\* created, when its select found no chat with that id for the owner, a
\* chat with that id owned by the caller whose message list is exactly
\* [user message, assistant message]; when the select found the chat, the
\* stored list is the list read, unchanged and in order, followed by
\* exactly those two messages.  No other chat changes.  A call whose write
\* fails returns null and changes no chat; that is the only result when the
\* chat id is held by a chat the select did not return (another owner's).
C2_CreateOrAppend ==
  [][\A t \in Turns :
       (turn[t].pc = "saveWrite" /\ turn'[t].pc = "done") =>
         LET id == CurrentChatId(t, turn[t]) IN
           IF turn'[t].savedChat # Null
             THEN /\ IF turn[t].existingChat.found
                       THEN /\ id \in DOMAIN chats
                            /\ chats'[id] =
                                 [chats[id] EXCEPT !.messages =
                                    turn[t].existingChat.messages
                                      \o << NewMessage(t),
                                            AssistantMessage(t, turn[t].selectedPersona) >>]
                       ELSE /\ id \notin DOMAIN chats
                            /\ chats'[id] =
                                 [user_id |-> turn[t].uid,
                                  persona_id |-> turn[t].selectedPersona.id,
                                  messages |-> << NewMessage(t),
                                                  AssistantMessage(t, turn[t].selectedPersona) >>]
                  /\ DOMAIN chats' = DOMAIN chats \cup {id}
                  /\ \A c \in DOMAIN chats \ {id} : chats'[c] = chats[c]
             ELSE chats' = chats]_vars

C2_Witness ==
  \E a, b \in Turns :
    /\ a # b
    /\ turn[a].pc = "done" /\ turn[a].savedChat # Null /\ turn[a].chatId = Null
    /\ turn[b].pc = "done" /\ turn[b].savedChat = SeedChatId
    /\ SeedChatId \in DOMAIN chats
    /\ Len(chats[SeedChatId].messages) = 4
    /\ turn[a].savedChat \in DOMAIN chats
    /\ Len(chats[turn[a].savedChat].messages) = 2

\* C3 (as claimed): once all saveConversation calls have completed (and no
\* chat was deleted), every chat still holds the two messages of every call
\* that reported success.
C3_NoSavedTurnIsLost ==
  (~chatDeleted /\ \A t \in Turns : turn[t].pc \in {"idle", "done"}) =>
    \A t \in Turns :
      (turn[t].pc = "done" /\ turn[t].savedChat # Null) =>
        /\ turn[t].savedChat \in DOMAIN chats
        /\ HoldsTurn(chats[turn[t].savedChat].messages, t)

Roles(messages) == [i \in 1..Len(messages) |-> messages[i].role]
Contents(messages) == [i \in 1..Len(messages) |-> messages[i].content]

\* Turns a and b of the browser client are sequential: a started a new chat
\* and succeeded, b carried the chat id a's response named and succeeded;
\* no other request used that chat id and no chat was deleted.
SequentialTurns(a, b) ==
  /\ a < b
  /\ turn[a].client /\ turn[b].client
  /\ turn[a].pc = "done" /\ turn[a].status = 200
  /\ turn[b].pc = "done" /\ turn[b].status = 200
  /\ turn[a].chatId = Null
  /\ turn[b].chatId = ResponseChatId(a, turn[a])
  /\ ~chatDeleted
  /\ \A o \in Turns \ {a, b} :
       turn[o].pc = "idle" \/ CurrentChatId(o, turn[o]) # ResponseChatId(a, turn[a])

FourMessagesOneChat(a, b) ==
  LET id == ResponseChatId(a, turn[a]) IN
    /\ id \in DOMAIN chats
    /\ Roles(chats[id].messages) = <<"user", "assistant", "user", "assistant">>
    /\ Contents(chats[id].messages) = <<a, a, b, b>>
    /\ ResponseChatId(b, turn[b]) = id
    /\ \A c \in DOMAIN chats :
         (HoldsTurn(chats[c].messages, a) \/ HoldsTurn(chats[c].messages, b))
           => c = id

\* C4 (as claimed): two sequential turns, the second carrying the chat id
\* returned by the first, leave exactly one chat holding the four messages
\* in call order; no second chat is created.
C4_SequentialTurnsShareChat ==
  \A a, b \in Turns : SequentialTurns(a, b) => FourMessagesOneChat(a, b)

\* C4 (amended): two sequential turns, the second carrying the chat id
\* returned by the first, both stored by saveConversation, leave exactly one
\* chat holding the four messages in call order, and no second chat; when
\* the first turn's save failed and the second's succeeded, the chat named
\* by both responses holds the second turn's two messages only.
C4_FourMessagesOneChat ==
  \A a, b \in Turns :
    SequentialTurns(a, b) =>
      /\ (turn[a].savedChat # Null /\ turn[b].savedChat # Null)
           => FourMessagesOneChat(a, b)
      /\ (turn[a].savedChat = Null /\ turn[b].savedChat # Null)
           => /\ ResponseChatId(b, turn[b]) = ResponseChatId(a, turn[a])
              /\ Contents(chats[ResponseChatId(a, turn[a])].messages) = <<b, b>>

C4_Witness ==
  \E a, b \in Turns :
    /\ SequentialTurns(a, b)
    /\ turn[a].savedChat # Null /\ turn[b].savedChat # Null
    /\ Len(chats[turn[b].savedChat].messages) = 4

\* C5: in every state of the chat store every assistant message carries a
\* non-null persona name and persona id, and no user message carries
\* persona attribution.
C5_PersonaAttribution ==
  \A c \in DOMAIN chats :
    \A i \in 1..Len(chats[c].messages) :
      LET m == chats[c].messages[i] IN
        /\ m.role \in {"user", "assistant"}
        /\ m.role = "assistant" =>
             /\ {"persona", "personaId"} \subseteq DOMAIN m
             /\ m.persona # Null /\ m.personaId # Null
        /\ m.role = "user" => DOMAIN m \cap {"persona", "personaId"} = {}

C5_Witness ==
  \E c \in DOMAIN chats :
    \E i \in 1..Len(chats[c].messages) :
      /\ chats[c].messages[i].role = "assistant"
      /\ chats[c].messages[i].content > 0
      /\ chats[c].messages[i].persona = "User"
      /\ chats[c].messages[i - 1].role = "user"

\* what a request under uid can read or delete of the stored chats is its
\* own: the filtered select finds a chat only for its owner, the persona
\* joined from a chat is read only for its owner, and the delete removes
\* only the named chat of its owner
OwnChatsOnly ==
  \A uid \in Users, chatId \in DOMAIN chats :
    /\ SelectExisting(uid, chatId).found => chats[chatId].user_id = uid
    /\ ChatPersona(uid, chatId) # {NoPersona} => chats[chatId].user_id = uid
    /\ \A c \in DOMAIN chats \ DOMAIN DeleteRows(uid, chatId) :
         c = chatId /\ chats[c].user_id = uid
    /\ \A c \in DOMAIN DeleteRows(uid, chatId) :
         DeleteRows(uid, chatId)[c] = chats[c]

\* turn t ends with the write of saveConversation in this step
Writes(t) == turn[t].pc = "saveWrite" /\ turn'[t].pc = "done"

\* a step that hands a turn the stored messages hands it those of a chat of
\* the turn's user; a step that changes a row is the write of a turn of the
\* row's owner; a step that adds a row is the write of a turn of the new
\* row's owner; a step that removes rows is no turn's
OwnerSteps ==
  /\ \A t \in Turns :
       (turn'[t].existingChat.found /\ ~turn[t].existingChat.found) =>
         LET id == CurrentChatId(t, turn[t])
         IN /\ id \in DOMAIN chats
            /\ chats[id].user_id = turn[t].uid
            /\ turn'[t].existingChat.messages = chats[id].messages
  /\ \A c \in DOMAIN chats \cap DOMAIN chats' :
       chats'[c] # chats[c] =>
         /\ chats'[c].user_id = chats[c].user_id
         /\ \E t \in Turns : Writes(t) /\ turn[t].uid = chats[c].user_id
  /\ \A c \in DOMAIN chats' \ DOMAIN chats :
       \E t \in Turns : Writes(t) /\ turn[t].uid = chats'[c].user_id
  /\ DOMAIN chats \ DOMAIN chats' # {} => turn' = turn

\* C25: a request carrying owner id U reads, appends to and deletes only
\* chats whose user_id is U; no history read, saveConversation or chat
\* delete issued under U observes or changes a chat of another user, also
\* when U supplies that user's chat id.
C25_ChatIsolation == []OwnChatsOnly /\ [][OwnerSteps]_vars

\* a turn of u2 that named u1's chat c0 has answered 200 and has stored
\* nothing, while another turn of u2 has created a chat of its own; c0 is
\* as it was
C25_Witness ==
  /\ SeedChatId \in DOMAIN chats /\ chats[SeedChatId] = SeedChat
  /\ \E a, b \in Turns :
       /\ turn[a].pc = "done" /\ turn[a].uid = "u2"
       /\ turn[a].chatId = SeedChatId /\ turn[a].status = 200
       /\ turn[a].savedChat = Null
       /\ turn[b].pc = "done" /\ turn[b].uid = "u2"
       /\ turn[b].savedChat # Null
       /\ chats[turn[b].savedChat].user_id = "u2"

(***************************************************************************)
(* generateVideo, the ComfyUI bridge and the engine.                       *)
(***************************************************************************)
MaxForeign == 1

\* Mutant: any message that carries a job id is dispatched.
Matches_AnyJob(m) == m.prompt_id # Null

\* if (message.data?.prompt_id && message.data.prompt_id === this.promptId)
Matches(m) == m.prompt_id # Null /\ m.prompt_id = promptId

\* Mutant: every executed node counts as a save node.
IsSaveEvent_AnyNode(m) == m.type = "executed"

\* message.type === 'executed' and this.nodes.api_save.includes(node)
IsSaveEvent(m) == m.type = "executed" /\ m.node \in ApiSave

CallbackTypes ==
  {"executed", "execution_start", "execution_cache", "execution_error",
   "execution_success"}

IsCallbackEvent(m) == m.type \in CallbackTypes

\* resolve(...) / reject(...) of generateVideo's promise: the first call
\* settles it, later calls do nothing.
Settle(result, by) ==
  IF outcome = "pending"
    THEN outcome' = result /\ settledBy' = by
    ELSE UNCHANGED <<outcome, settledBy>>

\* comfyUI.onmessage for a JSON message m.  onSaveCallback runs up to its
\* first await (the download request); onMessageCallback disconnects and
\* rejects on execution_error.
OnMessage(m) ==
  LET save   == Matches(m) /\ IsSaveEvent(m)
      msg    == Matches(m) /\ IsCallbackEvent(m)
      failed == msg /\ m.type = "execution_error"
  IN /\ lastEvent' = m
     /\ saveCalls' = IF save THEN saveCalls + 1 ELSE saveCalls
     /\ saveTask' = IF save THEN "download" ELSE saveTask
     /\ msgCalls' = IF msg THEN msgCalls + 1 ELSE msgCalls
     /\ firstTerminal' = IF firstTerminal = Null /\ (save \/ failed)
                           THEN m.type ELSE firstTerminal
     /\ ws' = IF failed THEN "closed" ELSE ws
     /\ IF failed THEN Settle("rejected", "execution_error")
                  ELSE UNCHANGED <<outcome, settledBy>>

\* The engine sends m to the client: it arrives when the socket is open.
Send(m) ==
  IF ws = "open"
    THEN OnMessage(m)
    ELSE UNCHANGED <<lastEvent, saveCalls, saveTask, msgCalls, firstTerminal,
                     ws, outcome, settledBy>>

JobEvent(type, node) == [type |-> type, prompt_id |-> JobId, node |-> node]

\* generateVideo up to waitForConnection: read the workflow (may throw),
\* construct the bridge (which connects) and arm the connection timeout.
GenerateVideo ==
  /\ gv = "start"
  /\ \/ /\ gv' = "threw"
        /\ Settle("rejected", "workflow")
        /\ UNCHANGED <<ws, connTimer>>
     \/ /\ gv' = "waitForConnection"
        /\ ws' = "connecting"
        /\ connTimer' = TRUE
        /\ UNCHANGED <<outcome, settledBy>>
  /\ UNCHANGED <<promptId, job, interrupt, saveTask, saveCalls, msgCalls,
                 videosStored, queueCalls, lastEvent, firstTerminal,
                 foreignCount, responded, nonBridgeVars>>

\* comfyUI.onopen -> onOpenCallback: clearTimeout and resolve
OnOpen ==
  /\ ws = "connecting"
  /\ ws' = "open"
  /\ IF gv = "waitForConnection"
       THEN gv' = "uploadAudio" /\ connTimer' = FALSE
       ELSE UNCHANGED <<gv, connTimer>>
  /\ UNCHANGED <<outcome, settledBy, promptId, job, interrupt, saveTask,
                 saveCalls, msgCalls, videosStored, queueCalls, lastEvent,
                 firstTerminal, foreignCount, responded, nonBridgeVars>>

\* Mutant: when the connection timer fires generateVideo goes on to the
\* uploads instead of throwing.
ConnectionTimeout_Proceeds ==
  /\ connTimer
  /\ gv = "waitForConnection"
  /\ connTimer' = FALSE
  /\ gv' = "uploadAudio"
  /\ UNCHANGED <<outcome, settledBy, ws, promptId, job, interrupt, saveTask,
                 saveCalls, msgCalls, videosStored, queueCalls, lastEvent,
                 firstTerminal, foreignCount, responded, nonBridgeVars>>

\* waitForConnection's timer fires: the await throws into generateVideo's
\* catch, which rejects.
ConnectionTimeout ==
  /\ connTimer
  /\ gv = "waitForConnection"
  /\ connTimer' = FALSE
  /\ gv' = "threw"
  /\ Settle("rejected", "connectionTimeout")
  /\ UNCHANGED <<ws, promptId, job, interrupt, saveTask, saveCalls, msgCalls,
                 videosStored, queueCalls, lastEvent, firstTerminal,
                 foreignCount, responded, nonBridgeVars>>

\* comfyUI.onerror -> disconnect()
OnError ==
  /\ ws \in {"connecting", "open"}
  /\ ws' = "closed"
  /\ UNCHANGED <<gv, outcome, settledBy, promptId, connTimer, job, interrupt,
                 saveTask, saveCalls, msgCalls, videosStored, queueCalls,
                 lastEvent, firstTerminal, foreignCount, responded, nonBridgeVars>>

\* comfyUI.onclose: the engine's side closed the socket; the handler logs.
OnClose ==
  /\ ws = "open"
  /\ ws' = "closed"
  /\ UNCHANGED <<gv, outcome, settledBy, promptId, connTimer, job, interrupt,
                 saveTask, saveCalls, msgCalls, videosStored, queueCalls,
                 lastEvent, firstTerminal, foreignCount, responded, nonBridgeVars>>

\* await comfyUI.uploadAudio(...)
UploadAudio ==
  /\ gv = "uploadAudio"
  /\ \/ gv' = "uploadImage" /\ UNCHANGED <<outcome, settledBy>>
     \/ gv' = "threw" /\ Settle("rejected", "uploadAudio")
  /\ UNCHANGED <<ws, promptId, connTimer, job, interrupt, saveTask, saveCalls,
                 msgCalls, videosStored, queueCalls, lastEvent, firstTerminal,
                 foreignCount, responded, nonBridgeVars>>

\* await comfyUI.uploadImage(...)
UploadImage ==
  /\ gv = "uploadImage"
  /\ \/ gv' = "queue" /\ UNCHANGED <<outcome, settledBy>>
     \/ gv' = "threw" /\ Settle("rejected", "uploadImage")
  /\ UNCHANGED <<ws, promptId, connTimer, job, interrupt, saveTask, saveCalls,
                 msgCalls, videosStored, queueCalls, lastEvent, firstTerminal,
                 foreignCount, responded, nonBridgeVars>>

\* comfyUI.queue(...) up to its fetch of /prompt.  The engine refuses the
\* prompt, or queues a job; saveValid tells whether the save node passed
\* validation (when it did not, the response's node_errors name it among
\* the dependent outputs).
Queue ==
  /\ gv = "queue"
  /\ gv' = "queueFetch"
  /\ queueCalls' = queueCalls + 1
  /\ \E accepted \in BOOLEAN, saveValid \in BOOLEAN :
       job' = IF accepted
                THEN [state |-> "queued", saveValid |-> saveValid, executed |-> {}]
                ELSE [NoJob EXCEPT !.state = "refused"]
  /\ UNCHANGED <<outcome, settledBy, ws, promptId, connTimer, interrupt,
                 saveTask, saveCalls, msgCalls, videosStored, lastEvent,
                 firstTerminal, foreignCount, responded, nonBridgeVars>>

\* queue() from the response of /prompt on: !response.ok throws; otherwise
\* the prompt id is stored and, if a save node is affected by node errors,
\* interupt() is called (not awaited) and queue rejects.
QueueResponse ==
  /\ gv = "queueFetch"
  /\ IF job.state = "refused"
       THEN /\ gv' = "threw"
            /\ Settle("rejected", "queue")
            /\ UNCHANGED <<promptId, interrupt>>
       ELSE /\ promptId' = JobId
            /\ IF ~job.saveValid
                 THEN /\ interrupt' = "sent"
                      /\ gv' = "threw"
                      /\ Settle("rejected", "saveNodeAffected")
                 ELSE /\ gv' = "returned"
                      /\ UNCHANGED <<interrupt, outcome, settledBy>>
  /\ UNCHANGED <<ws, connTimer, job, saveTask, saveCalls, msgCalls,
                 videosStored, queueCalls, lastEvent, firstTerminal,
                 foreignCount, responded, nonBridgeVars>>

\* The engine's answer to POST /api/interrupt.
InterruptResponse ==
  /\ interrupt = "sent"
  /\ \/ /\ interrupt' = "ok"
        /\ job' = IF job.state \in {"queued", "running"}
                    THEN [job EXCEPT !.state = "interrupted"] ELSE job
     \/ /\ interrupt' = "failed"
        /\ UNCHANGED job
  /\ UNCHANGED <<gv, outcome, settledBy, ws, promptId, connTimer, saveTask,
                 saveCalls, msgCalls, videosStored, queueCalls, lastEvent,
                 firstTerminal, foreignCount, responded, nonBridgeVars>>

(***************************************************************************)
(* The engine runs the queued job and reports on the socket: it starts the *)
(* job, executes each output node that passed validation once, and ends    *)
(* the job with execution_success after all of them or with                *)
(* execution_error at any point.  An output node that failed validation    *)
(* is not executed.                                                        *)
(***************************************************************************)
ExecutionStart ==
  /\ job.state = "queued"
  /\ job' = [job EXCEPT !.state = "running"]
  /\ Send(JobEvent("execution_start", Null))
  /\ UNCHANGED <<gv, promptId, connTimer, interrupt, videosStored, queueCalls,
                 foreignCount, responded, nonBridgeVars>>

ValidNodes == IF job.saveValid THEN WorkflowNodes ELSE WorkflowNodes \ ApiSave

Executed ==
  /\ job.state = "running"
  /\ \E node \in ValidNodes \ job.executed :
       /\ job' = [job EXCEPT !.executed = @ \cup {node}]
       /\ Send(JobEvent("executed", node))
  /\ UNCHANGED <<gv, promptId, connTimer, interrupt, videosStored, queueCalls,
                 foreignCount, responded, nonBridgeVars>>

ExecutionSuccess ==
  /\ job.state = "running"
  /\ job.executed = ValidNodes
  /\ job' = [job EXCEPT !.state = "success"]
  /\ Send(JobEvent("execution_success", Null))
  /\ UNCHANGED <<gv, promptId, connTimer, interrupt, videosStored, queueCalls,
                 foreignCount, responded, nonBridgeVars>>

ExecutionError ==
  /\ job.state = "running"
  /\ job' = [job EXCEPT !.state = "error"]
  /\ Send(JobEvent("execution_error", Null))
  /\ UNCHANGED <<gv, promptId, connTimer, interrupt, videosStored, queueCalls,
                 foreignCount, responded, nonBridgeVars>>

\* Messages about another client's job, and messages without a job id.
ForeignEvents ==
  {[type |-> "executed", prompt_id |-> ForeignJobId, node |-> "131"],
   [type |-> "execution_error", prompt_id |-> ForeignJobId, node |-> Null],
   [type |-> "executed", prompt_id |-> Null, node |-> "131"],
   [type |-> "status", prompt_id |-> Null, node |-> Null]}

ForeignEvent ==
  /\ ws = "open"
  /\ foreignCount < MaxForeign
  /\ foreignCount' = foreignCount + 1
  /\ \E m \in ForeignEvents : OnMessage(m)
  /\ UNCHANGED <<gv, promptId, connTimer, job, interrupt, videosStored,
                 queueCalls, responded, nonBridgeVars>>

\* onSaveCallback: await downloadGeneratedVideo(...); a failure disconnects
\* and rejects.
SaveDownload ==
  /\ saveTask = "download"
  /\ \/ /\ saveTask' = "upload"
        /\ UNCHANGED <<ws, outcome, settledBy>>
     \/ /\ saveTask' = "failed"
        /\ ws' = "closed"
        /\ Settle("rejected", "saveFailed")
  /\ UNCHANGED <<gv, promptId, connTimer, job, interrupt, saveCalls, msgCalls,
                 videosStored, queueCalls, lastEvent, firstTerminal,
                 foreignCount, responded, nonBridgeVars>>

\* onSaveCallback: await s3Service.uploadVideoFile(...), disconnect, resolve;
\* a failure disconnects and rejects.
SaveUpload ==
  /\ saveTask = "upload"
  /\ ws' = "closed"
  /\ \/ /\ saveTask' = "stored"
        /\ videosStored' = videosStored + 1
        /\ Settle("resolved", "stored")
     \/ /\ saveTask' = "failed"
        /\ UNCHANGED videosStored
        /\ Settle("rejected", "saveFailed")
  /\ UNCHANGED <<gv, promptId, connTimer, job, interrupt, saveCalls, msgCalls,
                 queueCalls, lastEvent, firstTerminal, foreignCount, responded,
                 nonBridgeVars>>

\* The handler's await of generateVideo returns or throws; the turn goes on
\* to saveConversation and its response.
VideoStageDone ==
  /\ outcome # "pending"
  /\ ~responded
  /\ responded' = TRUE
  /\ UNCHANGED <<gv, outcome, settledBy, ws, promptId, connTimer, job,
                 interrupt, saveTask, saveCalls, msgCalls, videosStored,
                 queueCalls, lastEvent, firstTerminal, foreignCount, nonBridgeVars>>

BridgeInit == ChatIdle /\ BridgeIdle /\ StageIdle /\ UnitIdle

BridgeNext ==
  \/ GenerateVideo
  \/ OnOpen
  \/ ConnectionTimeout
  \/ OnError
  \/ OnClose
  \/ UploadAudio
  \/ UploadImage
  \/ Queue
  \/ QueueResponse
  \/ InterruptResponse
  \/ ExecutionStart
  \/ Executed
  \/ ExecutionSuccess
  \/ ExecutionError
  \/ ForeignEvent
  \/ SaveDownload
  \/ SaveUpload
  \/ VideoStageDone

BridgeSpec == BridgeInit /\ [][BridgeNext]_vars

(***************************************************************************)
(* Properties of the bridge.                                               *)
(***************************************************************************)

\* C6 (as claimed): whenever generateVideo has settled, by resolving or by
\* rejecting for any reason, the bridge's WebSocket has been closed (or no
\* bridge was ever constructed).
C6_SettledImpliesClosed ==
  outcome # "pending" => ws \in {"none", "closed"}

\* C7 (as claimed): a turn with video enabled always eventually responds,
\* so as long as it has not got past the video stage some step of the
\* call, of a timer or of the engine must still be possible.
C7_VideoTurnResponds ==
  responded \/ ENABLED BridgeNext

\* queue() found a save node among the dependent outputs of the node errors
SaveNodeAffected == promptId # NoPromptId /\ ~job.saveValid

C9_CallbacksOnlyForOwnJob ==
  [][(saveCalls' # saveCalls \/ msgCalls' # msgCalls) =>
       /\ promptId = JobId
       /\ queueCalls = 1
       /\ lastEvent'.prompt_id = promptId]_vars

C9_Witness ==
  /\ promptId = JobId
  /\ saveCalls = 1
  /\ msgCalls = 2
  /\ lastEvent.prompt_id = ForeignJobId
  /\ lastEvent.type = "executed"
  /\ "131" \in job.executed

\* C10 (as claimed): the outcome of a job is fixed by its first terminal
\* event: when that event is executed for the save node, generateVideo is
\* rejected only if retrieving or storing that result failed; when it is
\* execution_error, generateVideo is rejected and no video is stored; at
\* most one video is stored and queue is called at most once.
C10_FirstTerminalFixesOutcome ==
  /\ queueCalls <= 1
  /\ videosStored <= 1
  /\ (firstTerminal = "executed" /\ outcome = "rejected")
       => settledBy = "saveFailed"
  /\ firstTerminal = "execution_error"
       => (outcome = "rejected" /\ videosStored = 0)

\* the socket delivered the executed event of a save node of this job
SaveEventDelivered ==
  /\ lastEvent' # lastEvent
  /\ lastEvent'.type = "executed"
  /\ lastEvent'.prompt_id = JobId
  /\ lastEvent'.node \in ApiSave

\* C21 (as claimed): the executed event of the submitted job's save node
\* invokes onSaveCallback whenever the socket delivers it, also when it is
\* delivered before the submit response has set the bridge's job id.
C21_SaveEventNeverLost ==
  [][SaveEventDelivered => saveCalls' = saveCalls + 1]_vars

\* Rejected promises nobody handles.  queue() calls this.interupt() and
\* drops the promise it returns, so a failed interrupt request (a fetch
\* error or a response that is not ok) rejects a promise without a handler.
UnhandledRejections == IF interrupt = "failed" THEN {"interupt"} ELSE {}

\* process.on('unhandledRejection', ...) calls process.exit(1)
ProcessExited == UnhandledRejections # {}

\* C22 (as claimed): every failure inside the bridge reaches the caller as
\* a rejection of the pending call; a failed interrupt request issued from
\* queue() leaves no unhandled rejection, so the video stage never makes
\* the server process exit.
C22_NoUnhandledRejection == ~ProcessExited

\* The bridge's place in disconnected -> connecting -> open -> job submitted
\* -> awaiting-result -> terminal -> disconnected, read from its socket, its
\* submit and its job id.
BridgePhase ==
  CASE ws = "none"       -> 0
    [] ws = "connecting" -> 1
    [] ws = "closed"     -> 6
    [] OTHER ->
         IF queueCalls = 0 THEN 2
         ELSE IF promptId = NoPromptId THEN 3
         ELSE IF firstTerminal = Null THEN 4
         ELSE 5

\* once generateVideo is at or past the uploads the open event has happened
OpenedBeforeUploads ==
  gv \in {"uploadAudio", "uploadImage", "queue", "queueFetch", "returned"}
    => ws \in {"open", "closed"}

OrderedStep ==
  /\ BridgePhase' >= BridgePhase
  /\ (gv' = "uploadAudio" /\ gv # "uploadAudio") =>
        (ws = "connecting" /\ ws' = "open")
  /\ (gv' = "uploadImage" /\ gv # "uploadImage") => gv = "uploadAudio"
  /\ (gv' = "queue" /\ gv # "queue") => gv = "uploadImage"
  /\ queueCalls' # queueCalls => (gv = "queue" /\ queueCalls = 0)
  /\ (saveCalls' # saveCalls \/ msgCalls' # msgCalls) =>
        (queueCalls = 1 /\ promptId = JobId)

\* C28: in generateVideo the bridge moves through disconnected, connecting,
\* open, job submitted, awaiting-result, terminal, disconnected only in that
\* order; the uploads start with the open event, the submit follows the
\* audio and the image upload, and no callback fires before the submit.
C28_BridgeOrder == []OpenedBeforeUploads /\ [][OrderedStep]_vars

\* a bridge that went through every phase: opened, uploaded, submitted,
\* got the job's start and its save event, stored the video and closed
C28_Witness ==
  /\ ws = "closed" /\ gv = "returned" /\ queueCalls = 1
  /\ promptId = JobId /\ firstTerminal = "executed"
  /\ msgCalls >= 2 /\ saveCalls = 1
  /\ saveTask = "stored" /\ outcome = "resolved" /\ settledBy = "stored"

(***************************************************************************)
(* One chat turn, stage by stage.  POST /api/chat/text and POST            *)
(* /api/chat/audio run the same stages; the audio endpoint transcribes     *)
(* the recording before it generates the reply.                            *)
(***************************************************************************)

Endpoints == {"text", "audio"}

\* locations of a request: keys of LOCATION_SUBREDDITS and one that is not
SupportedLocations == {"ottawa", "toronto"}
LocationInputs ==
  {{}, {"ottawa"}, {"ottawa", "atlantis"}, {"ottawa", "toronto", "atlantis"}}

Requests ==
  [endpoint : Endpoints, uid : {ClientUser}, chatId : {Null, SeedChatId},
   personaId : PersonaIdInputs, personaName : PersonaNameInputs,
   locations : LocationInputs, videoEnabled : BOOLEAN]

Fail_Respond200(H, stage) ==
  [H EXCEPT !.pc = "done", !.failedAt = stage,
            !.res = [NoResponse EXCEPT !.status = 200]]

\* catch (error) { res.status(500).json({ error: ... }) }
Fail(H, stage) ==
  [H EXCEPT !.pc = "done", !.failedAt = stage,
            !.res = [NoResponse EXCEPT !.status = 500]]

\* const { message, personaName, personaId, uid, chatId, locations,
\*         videoEnabled = false } = req.body
Arrive ==
  /\ h.pc = "idle"
  /\ req' \in Requests
  /\ h' = [h EXCEPT !.pc = "resolve"]
  /\ UNCHANGED <<chats, objects, nonStageVars>>

\* Persona resolution; personas and chat are what getPersonas and the chat
\* query returned to it.
Resolve ==
  /\ h.pc = "resolve"
  /\ \E fromChat \in ChatPersona(req.uid, req.chatId),
        plist \in GetPersonasResults :
       LET selected == SelectPersona(req.personaId, req.personaName,
                                     req.chatId, fromChat, plist)
           H == [h EXCEPT !.personas = plist, !.chat = fromChat,
                          !.selectedPersona = selected]
       IN h' = IF selected = NoPersona
                 THEN Fail(H, "persona")
                 ELSE [H EXCEPT !.pc = "prepare"]
  /\ UNCHANGED <<req, chats, objects, nonStageVars>>

\* brightdataService.isLocationSupported drops the unsupported locations
ValidLocations(locations) == locations \cap SupportedLocations

\* getChatHistory, transcribeAudio (audio endpoint only; a throw ends the
\* turn) and the validation of the locations.
Prepare ==
  /\ h.pc = "prepare"
  /\ LET H == [h EXCEPT !.personas = << >>, !.chat = NoPersona]
     IN \/ /\ req.endpoint = "audio"
           /\ h' = Fail(H, "transcribe")
        \/ h' = [H EXCEPT !.pc = "crawl",
                          !.validLocations = ValidLocations(req.locations)]
  /\ UNCHANGED <<req, chats, objects, nonStageVars>>

\* What crawlRedditNews returns for a location: on any error
\* { success: false, articles: [] }, else the processed articles (an
\* article is named by its location), which may be none.
CrawlOutcomes(location) ==
  {[success |-> FALSE, articles |-> {}],
   [success |-> TRUE, articles |-> {}],
   [success |-> TRUE, articles |-> {location}]}

SuccessfulCrawls_All(newsResults) == DOMAIN newsResults

\* newsResults.filter(result => result.status === 'fulfilled' &&
\*                              result.value.success)
SuccessfulCrawls(newsResults) ==
  {l \in DOMAIN newsResults : newsResults[l].success}

\* generateNewsContext(allArticles, locations.join(', ')), called only when
\* some crawl succeeded; without articles it is the notice that no
\* discussions were found
NewsContext(newsResults) ==
  LET successful == SuccessfulCrawls(newsResults)
      allArticles == UNION {newsResults[l].articles : l \in successful}
  IN IF successful = {} THEN NoNewsContext
     ELSE [kind |-> IF allArticles = {} THEN "notice" ELSE "briefing",
           articles |-> allArticles,
           label |-> DOMAIN newsResults]

\* generateAIResponse, first half: one crawl per valid location
\* (Promise.allSettled), then the news context.
Crawl ==
  /\ h.pc = "crawl"
  /\ \E newsResults \in [h.validLocations -> UNION {CrawlOutcomes(l) : l \in h.validLocations}] :
       /\ \A l \in h.validLocations : newsResults[l] \in CrawlOutcomes(l)
       /\ h' = [h EXCEPT !.pc = "generate", !.newsResults = newsResults,
                         !.newsContext = NewsContext(newsResults)]
  /\ UNCHANGED <<req, chats, objects, nonStageVars>>

\* generateAIResponse, second half: the model call, which may throw; then
\* the chat id of the turn.
Generate ==
  /\ h.pc = "generate"
  /\ \/ h' = Fail(h, "generate")
     \/ h' = [h EXCEPT !.pc = "audio", !.aiResponse = "reply",
                       !.currentChatId = CurrentChatId(1, req)]
  /\ UNCHANGED <<req, chats, objects, nonStageVars>>

\* media references: S3 keys and the URL of a local file
AudioKey == "u1/chat/a.pcm"
UserAudioKey == "u1/chat/u.pcm"
VideoKey == "u1/chat/v.mp4"
LocalAudioUrl == "http://host/api/audio/u1/chat/a.pcm"
LocalUserAudioUrl == "http://host/api/audio/u1/chat/u.pcm"

\* const isMultiUserMode = selectedPersona.name === 'User'
IsMultiUserMode(H) == H.selectedPersona.name = "User"

\* saveAudioFile / saveMultiSpeakerAudio: the S3 keys when upload and
\* verification succeed, else whatever saveAudioFileLocal returns (a local
\* URL, or null when the local write fails too)
SavedAudio(multi, uploaded, verified, localUser, localAssistant) ==
  LET s3 == uploaded /\ verified
  IN [audioUrl     |-> IF s3 THEN AudioKey
                       ELSE IF localAssistant THEN LocalAudioUrl ELSE Null,
      userAudioUrl |-> IF ~multi THEN Null
                       ELSE IF s3 THEN UserAudioKey
                       ELSE IF localUser THEN LocalUserAudioUrl ELSE Null,
      stored       |-> (IF uploaded
                          THEN {AudioKey} \cup (IF multi THEN {UserAudioKey} ELSE {})
                          ELSE {})
                       \cup (IF ~s3 /\ localAssistant THEN {LocalAudioUrl} ELSE {})
                       \cup (IF ~s3 /\ multi /\ localUser
                               THEN {LocalUserAudioUrl} ELSE {})]

\* The audio stage: speech synthesis (generateAudio or
\* generateMultiSpeakerAudio), then the save; a throw anywhere in the stage
\* is caught and the turn continues text-only.
AudioStage ==
  /\ h.pc = "audio"
  /\ LET H == [h EXCEPT !.pc = "video", !.validLocations = {},
                        !.newsResults = << >>,
                        !.newsContext = NoNewsContext]
     IN \/ /\ h' = [H EXCEPT !.speech = "failed"]
           /\ UNCHANGED objects
        \/ \E uploaded, verified, localUser, localAssistant \in BOOLEAN :
             LET a == SavedAudio(IsMultiUserMode(h), uploaded, verified,
                                 localUser, localAssistant)
             IN /\ h' = [H EXCEPT !.speech = "ok", !.audioUrl = a.audioUrl,
                                  !.userAudioUrl = a.userAudioUrl]
                /\ objects' = objects \cup a.stored
  /\ UNCHANGED <<req, chats, nonStageVars>>

VideoWanted_EnabledOnly(videoEnabled, audioUrl) == videoEnabled

\* if (videoEnabled && audioUrl)
VideoWanted(videoEnabled, audioUrl) == videoEnabled /\ audioUrl # Null

\* The video stage up to the call of generateVideo: the audio is fetched
\* back, the persona image is fetched (a failure there leaves no image),
\* and only with an image is the bridge invoked.  A throw outside the image
\* fetch ends the stage.
VideoStage ==
  /\ h.pc = "video"
  /\ IF VideoWanted(req.videoEnabled, h.audioUrl)
       THEN \E step \in {"prepFailed", "noImage", "invoked"} :
              h' = [h EXCEPT !.videoStage = step,
                             !.pc = IF step = "invoked" THEN "bridge" ELSE "save"]
       ELSE h' = [h EXCEPT !.pc = "save"]
  /\ UNCHANGED <<req, chats, objects, nonStageVars>>

\* generateVideo settles: it resolves with the key of the stored video, or
\* rejects; a rejection by execution_error can come while the save of the
\* video is under way, which still stores it.
BridgeSettles ==
  /\ h.pc = "bridge" /\ h.videoStage = "invoked"
  /\ \/ /\ h' = [h EXCEPT !.pc = "save", !.videoStage = "resolved",
                           !.videoUrl = VideoKey]
        /\ objects' = objects \cup {VideoKey}
     \/ /\ h' = [h EXCEPT !.pc = "save", !.videoStage = "rejected"]
        /\ objects' \in {objects, objects \cup {VideoKey}}
  /\ UNCHANGED <<req, chats, nonStageVars>>

\* The job is submitted and no terminal event will be dispatched (the
\* socket failed or was closed, or the engine stays silent): nothing is
\* left that settles generateVideo, and the handler awaits it without a
\* timeout.
BridgeStalls ==
  /\ h.pc = "bridge" /\ h.videoStage = "invoked"
  /\ h' = [h EXCEPT !.videoStage = "stalled"]
  /\ UNCHANGED <<req, chats, objects, nonStageVars>>

\* newMessage and assistantMessage of saveConversation with their media
\* references
WithMedia(H) ==
  << NewMessage(1) @@ [audioUrl |-> H.userAudioUrl],
     AssistantMessage(1, H.selectedPersona)
       @@ [audioUrl |-> H.audioUrl, videoUrl |-> H.videoUrl] >>

\* saveConversation: the chat row after the update or the insert, or null
\* on any error.
Save ==
  /\ h.pc = "save"
  /\ LET id == h.currentChatId
         existing == id \in DOMAIN chats /\ chats[id].user_id = req.uid
     IN \/ /\ existing
           /\ chats' = [chats EXCEPT ![id].messages = @ \o WithMedia(h)]
           /\ h' = [h EXCEPT !.pc = "sign", !.saved = "stored", !.savedChat = id]
        \/ /\ id \notin DOMAIN chats
           /\ chats' = chats @@ (id :> [user_id |-> req.uid,
                                        persona_id |-> h.selectedPersona.id,
                                        messages |-> WithMedia(h)])
           /\ h' = [h EXCEPT !.pc = "sign", !.saved = "stored", !.savedChat = id]
        \/ /\ chats' = chats
           /\ h' = [h EXCEPT !.pc = "sign", !.saved = "failed"]
  /\ UNCHANGED <<req, objects, nonStageVars>>

\* s3Service.getSignedUrl presigns whatever key it is handed
SignedUrl(key) ==
  CASE key = AudioKey -> "https://s3/u1/chat/a.pcm?sig"
    [] key = UserAudioKey -> "https://s3/u1/chat/u.pcm?sig"
    [] key = VideoKey -> "https://s3/u1/chat/v.mp4?sig"
    [] key = LocalAudioUrl -> "https://s3/http://host/api/audio/u1/chat/a.pcm?sig"
    [] key = LocalUserAudioUrl -> "https://s3/http://host/api/audio/u1/chat/u.pcm?sig"

\* The references signed in order audio, user audio, video; a throw skips
\* the rest.
SignOrder == <<"audioUrl", "userAudioUrl", "videoUrl">>

SignedRefs(H, failAt) ==
  LET stop == IF failAt = Null THEN 4
              ELSE CHOOSE i \in 1..3 : SignOrder[i] = failAt
      signed(i) == IF i < stop /\ H[SignOrder[i]] # Null
                     THEN SignedUrl(H[SignOrder[i]]) ELSE Null
  IN [audioUrl |-> signed(1), userAudioUrl |-> signed(2), videoUrl |-> signed(3)]

\* cleanResponseText, the signed URLs (a signing failure is swallowed) and
\* res.json.
SignAndRespond ==
  /\ h.pc = "sign"
  /\ \E failAt \in {Null} \cup {SignOrder[i] : i \in {j \in 1..3 : h[SignOrder[j]] # Null}} :
       LET u == SignedRefs(h, failAt)
       IN h' = [h EXCEPT !.pc = "done", !.signFailedAt = failAt,
                         !.res = [status |-> 200, aiResponse |-> h.aiResponse,
                                  audioUrl |-> u.audioUrl,
                                  userAudioUrl |-> u.userAudioUrl,
                                  videoUrl |-> u.videoUrl,
                                  chatId |->
                                    ResponseChatId(1, [savedChat |-> h.savedChat,
                                                       chatId |-> req.chatId])]]
  /\ UNCHANGED <<req, chats, objects, nonStageVars>>

TurnInit == ChatInit /\ BridgeIdle /\ StageIdle /\ UnitIdle

TurnNext ==
  \/ Arrive
  \/ Resolve
  \/ Prepare
  \/ Crawl
  \/ Generate
  \/ AudioStage
  \/ VideoStage
  \/ BridgeSettles
  \/ BridgeStalls
  \/ Save
  \/ SignAndRespond

TurnSpec == TurnInit /\ [][TurnNext]_vars

(***************************************************************************)
(* Properties of the followed turn.                                        *)
(***************************************************************************)

\* The four sources in the order the persona is said to be tried.
PersonaSources ==
  << IF req.personaId # Null
       THEN GetPersonaById(h.personas, req.personaId) ELSE NoPersona,
     IF req.personaName # Null
       THEN GetPersonaByName(h.personas, req.personaName) ELSE NoPersona,
     IF req.chatId # Null THEN h.chat ELSE NoPersona,
     IF Len(h.personas) > 0 THEN h.personas[1] ELSE NoPersona >>

FirstFound(sources) ==
  LET found == {i \in 1..Len(sources) : sources[i] # NoPersona}
  IN IF found = {} THEN NoPersona
     ELSE sources[CHOOSE i \in found : \A j \in found : i <= j]

PersonaResolved == h.pc = "prepare" \/ h.failedAt = "persona"

\* C11: the persona of a turn is the first one found when trying, in order,
\* the supplied personaId, the supplied personaName, the persona stored on
\* the existing chat and the first persona of the list; the turn fails with
\* HTTP 500 at this stage exactly when none of the four yields a persona.
C11_PersonaInStatedOrder ==
  PersonaResolved =>
    /\ h.selectedPersona = FirstFound(PersonaSources)
    /\ (h.res.status = 500) <=> (FirstFound(PersonaSources) = NoPersona)

\* table chats as the turn found it
InitialChats == {<< >>, (SeedChatId :> SeedChat)}

\* C12: when the generation of the reply text fails, the turn ends with
\* HTTP 500 and has changed nothing: no message appended, no chat created,
\* no media object stored.
C12_FailedGenerationChangesNothing ==
  h.failedAt = "generate" =>
    /\ h.pc = "done" /\ h.res.status = 500
    /\ h.res.aiResponse = Null /\ h.res.chatId = Null
    /\ chats \in InitialChats
    /\ objects = {}
    /\ h.saved = "none" /\ h.audioUrl = Null /\ h.videoUrl = Null

\* generation failed after the crawls of a turn that continues a stored chat
C12_Witness ==
  /\ h.failedAt = "generate"
  /\ req.chatId \in DOMAIN chats
  /\ SuccessfulCrawls(h.newsResults) # {}

\* the assistant message the turn stored
StoredAssistantMessage ==
  LET messages == chats[h.savedChat].messages
  IN messages[Len(messages)]

\* C13: when speech synthesis fails the turn still answers with success,
\* the reply text and a null audioUrl; no video is attempted; and
\* saveConversation still runs, so that the assistant message it stores
\* carries a null audio reference.
C13_SpeechFailureDegradesToText ==
  h.speech = "failed" =>
    /\ h.audioUrl = Null /\ h.videoUrl = Null
    /\ h.videoStage = "none"
    /\ h.failedAt = Null
    /\ h.pc = "done" =>
         /\ h.res.status = 200
         /\ h.res.aiResponse = "reply"
         /\ h.res.audioUrl = Null /\ h.res.videoUrl = Null
         /\ h.saved # "none"
         /\ h.saved = "stored" =>
              /\ StoredAssistantMessage.content = 1
              /\ StoredAssistantMessage.audioUrl = Null
              /\ StoredAssistantMessage.videoUrl = Null

\* speech failed in a turn that asked for video; the turn answered and is
\* stored
C13_Witness ==
  /\ h.speech = "failed" /\ req.videoEnabled
  /\ h.pc = "done" /\ h.saved = "stored"

BridgeInvoked == h.videoStage \in {"invoked", "resolved", "rejected", "stalled"}

VideoStageFailed ==
  h.videoStage \in {"prepFailed", "noImage", "rejected", "stalled"}

\* the bridge runs, and a video reference exists, only for a turn that
\* asked for video and has an audio reference
VideoOnlyWithAudio ==
  /\ BridgeInvoked => req.videoEnabled /\ h.audioUrl # Null
  /\ (\/ h.videoUrl # Null
      \/ h.res.videoUrl # Null
      \/ h.saved = "stored" /\ StoredAssistantMessage.videoUrl # Null)
       => req.videoEnabled /\ h.audioUrl # Null

\* a failed video stage leaves the video reference null and the turn goes
\* on to its success response
FailedVideoStillAnswers ==
  VideoStageFailed =>
    /\ h.videoUrl = Null
    /\ h.pc = "done" => h.res.status = 200 /\ h.res.videoUrl = Null
    /\ h.pc # "done" => ENABLED TurnNext

\* C14: the job bridge is invoked only for a turn with videoEnabled and a
\* non-null audio reference, so a non-null video reference in the response
\* or in the stored assistant message implies both; and any failure inside
\* the video stage yields a null video reference while the turn still
\* succeeds.
C14_VideoGuardedAndFailureSafe ==
  VideoOnlyWithAudio /\ FailedVideoStillAnswers

\* C15: a failure of saveConversation does not fail the turn: the response
\* is still a success carrying the reply text, the URLs of the media the
\* turn produced (each signed, unless signing failed) and a chat id.
C15_SaveFailureStillAnswers ==
  h.saved = "failed" =>
    /\ h.failedAt = Null /\ h.savedChat = Null
    /\ h.pc = "done" =>
         /\ h.res.status = 200
         /\ h.res.aiResponse = "reply"
         /\ h.res.chatId = h.currentChatId /\ h.res.chatId # Null
         /\ h.res.audioUrl = SignedRefs(h, h.signFailedAt).audioUrl
         /\ h.res.userAudioUrl = SignedRefs(h, h.signFailedAt).userAudioUrl
         /\ h.res.videoUrl = SignedRefs(h, h.signFailedAt).videoUrl
         /\ h.signFailedAt = Null =>
              /\ h.audioUrl # Null => h.res.audioUrl = SignedUrl(h.audioUrl)
              /\ h.videoUrl # Null => h.res.videoUrl = SignedUrl(h.videoUrl)

\* a new chat whose audio and video were produced and signed, and whose
\* save failed
C15_Witness ==
  /\ h.saved = "failed" /\ h.pc = "done"
  /\ req.chatId = Null
  /\ h.res.audioUrl # Null /\ h.res.videoUrl # Null

\* the crawls of the turn have come back
CrawlsDone == h.pc \in {"generate", "audio"} \/ h.failedAt = "generate"

Succeeded(l) == h.newsResults[l].success

\* what the reply is generated with, given how the crawls went
NewsOfSuccessfulCrawls ==
  CrawlsDone =>
    /\ DOMAIN h.newsResults = {l \in req.locations : l \in SupportedLocations}
    /\ \A l \in DOMAIN h.newsResults :
         l \in h.newsContext.articles
           <=> (Succeeded(l) /\ l \in h.newsResults[l].articles)
    /\ h.newsContext.articles \subseteq DOMAIN h.newsResults
    /\ (\A l \in DOMAIN h.newsResults : ~Succeeded(l))
         => h.newsContext = NoNewsContext
    /\ h.pc = "generate" => h.failedAt = Null /\ h.res.status = 0

MediaStoreKeys == {AudioKey, UserAudioKey, VideoKey}

\* url is the signed URL of an object the turn wrote to the media store
SignedStoredObject(url) ==
  \E key \in MediaStoreKeys \cap objects : url = SignedUrl(key)

\* C24 (as claimed): every non-null audioUrl or videoUrl of a turn's
\* response is the signed URL of an object key the turn wrote to the media
\* store; a reference from the local-file fallback of the audio save is
\* never signed as if it were such a key.
C24_ResponseUrlsSignStoredObjects ==
  (h.pc = "done" /\ h.res.status = 200) =>
    /\ h.res.audioUrl # Null => SignedStoredObject(h.res.audioUrl)
    /\ h.res.videoUrl # Null => SignedStoredObject(h.res.videoUrl)

(***************************************************************************)
(* getPersonas.  A call either answers from the fresh cache or reads the   *)
(* table; the read is an await, so calls overlap.                          *)
(***************************************************************************)

\* what the table can hold over time (the persona sync rewrites it)
TableVersions == {PersonaRows, << PersonaRows[1] >>, << >>}

\* Mutant: a loaded cache never expires.
CacheFresh_Forever(now) == personasCache.loaded

\* if (this.personasCache && (now - this.lastPersonasCacheTime) < TTL)
CacheFresh(now) ==
  personasCache.loaded /\ (now - lastPersonasCacheTime) < PERSONAS_CACHE_TTL

OnReadFailure_Empty(cache) == << >>

\* return this.personasCache || []
OnReadFailure(cache) == IF cache.loaded THEN cache.list ELSE << >>

GetPersonas(c) ==
  /\ call[c].pc = "idle"
  /\ call' = [call EXCEPT ![c] =
                IF CacheFresh(clock)
                  THEN [pc |-> "returned", now |-> clock, how |-> "cache",
                        result |-> personasCache.list]
                  ELSE [@ EXCEPT !.pc = "reading", !.now = clock]]
  /\ UNCHANGED <<personasCache, lastPersonasCacheTime, clock, personasTable,
                 lastLoaded, nonCacheVars>>

\* select * from personas order by name came back with rows
ReadReturns(c) ==
  /\ call[c].pc = "reading"
  /\ personasCache' = [loaded |-> TRUE, list |-> personasTable]
  /\ lastPersonasCacheTime' = call[c].now
  /\ lastLoaded' = [loaded |-> TRUE, list |-> personasTable]
  /\ call' = [call EXCEPT ![c] = [@ EXCEPT !.pc = "returned", !.how = "read",
                                           !.result = personasTable]]
  /\ UNCHANGED <<clock, personasTable, nonCacheVars>>

\* the read came back with an error, or threw
ReadFails(c) ==
  /\ call[c].pc = "reading"
  /\ call' = [call EXCEPT ![c] = [@ EXCEPT !.pc = "returned", !.how = "failed",
                                           !.result = OnReadFailure(personasCache)]]
  /\ UNCHANGED <<personasCache, lastPersonasCacheTime, clock, personasTable,
                 lastLoaded, nonCacheVars>>

Tick ==
  /\ clock < MaxClock
  /\ clock' = clock + 1
  /\ UNCHANGED <<personasCache, lastPersonasCacheTime, personasTable, call,
                 lastLoaded, nonCacheVars>>

\* the persona sync rewrites the table
SyncPersonas ==
  /\ \E rows \in TableVersions \ {personasTable} : personasTable' = rows
  /\ UNCHANGED <<personasCache, lastPersonasCacheTime, clock, call,
                 lastLoaded, nonCacheVars>>

CacheInit ==
  /\ ChatIdle /\ BridgeIdle /\ StageIdle /\ CacheIdle /\ ParseIdle
  /\ ProfileIdle /\ KeyIdle /\ FurtherIdle

CacheNext ==
  \/ \E c \in Calls : GetPersonas(c)
  \/ \E c \in Calls : ReadReturns(c)
  \/ \E c \in Calls : ReadFails(c)
  \/ Tick
  \/ SyncPersonas

CacheSpec == CacheInit /\ [][CacheNext]_vars

\* the call returns now, its read having failed
FailedReturn(c) ==
  call[c].pc = "reading" /\ call'[c].pc = "returned" /\ call'[c].how = "failed"

\* C17: getPersonas never throws to its caller: a call whose read of the
\* table fails returns the list the latest successful read loaded, if there
\* was one, and the empty list otherwise.
C17_ReadFailureReturnsLastGood ==
  [][\A c \in Calls :
       /\ call[c].pc = "reading" => call'[c].pc \in {"reading", "returned"}
       /\ FailedReturn(c) =>
            call'[c].result = IF lastLoaded.loaded THEN lastLoaded.list
                              ELSE << >>]_vars

\* a call whose read failed has returned a loaded list that the table no
\* longer holds
C17_Witness ==
  \E c \in Calls :
    /\ call[c].how = "failed"
    /\ call[c].result # << >>
    /\ call[c].result # personasTable

\* the cache holds a list that is younger than the TTL
YoungCache ==
  personasCache.loaded /\ clock - lastPersonasCacheTime < PERSONAS_CACHE_TTL

\* call c is made in this step
Called(c) == call[c].pc = "idle" /\ call'[c].pc # "idle"

\* C27: a call of getPersonas made while the cache is younger than the TTL
\* returns the cached list without reading the table; a call made with no
\* cache or once the TTL has elapsed reads the table, and a successful read
\* replaces the cached list by the rows read and the timestamp by the time
\* of the call; a failed read leaves the cached list and its timestamp
\* unchanged, as does every other step.
C27_CacheServesUntilExpiry ==
  [][\A c \in Calls :
       /\ (Called(c) /\ YoungCache) =>
             /\ call'[c].pc = "returned" /\ call'[c].how = "cache"
             /\ call'[c].result = personasCache.list
       /\ (Called(c) /\ ~YoungCache) => call'[c].pc = "reading"
       /\ (call[c].pc = "reading" /\ call'[c].how = "read") =>
             /\ personasCache' = [loaded |-> TRUE, list |-> personasTable]
             /\ lastPersonasCacheTime' = call[c].now
             /\ call'[c].result = personasTable
       /\ (\A d \in Calls : ~(call[d].pc = "reading" /\ call'[d].how = "read")) =>
             /\ personasCache' = personasCache
             /\ lastPersonasCacheTime' = lastPersonasCacheTime]_vars

\* the first call loaded the cache at time 0; the second, made when the TTL
\* had elapsed, read the rewritten table and replaced list and timestamp
C27_Witness ==
  /\ call[1].how = "read" /\ call[1].now = 0
  /\ call[2].how = "read" /\ call[2].now >= PERSONAS_CACHE_TTL
  /\ call[2].result # call[1].result
  /\ personasCache.list = call[2].result
  /\ lastPersonasCacheTime = call[2].now

(***************************************************************************)
(* waitForCrawlCompletion: parsing of the text BrightData answers with.    *)
(* A text is a sequence of characters.  "p" stands for object content     *)
(* with a "post_id" member, "q" for valid content without one and "x" for  *)
(* content that is not JSON; the only white space is the line break.       *)
(***************************************************************************)

NL == "\n"

\* a post, another valid object, an object that is not JSON, a cut-off post
Fragments ==
  { <<"{", "p", "}">>, <<"{", "q", "}">>, <<"{", "x", "}">>, <<"{", "p">> }

RECURSIVE Join(_, _, _)
Join(frags, seps, i) ==
  IF i > Len(frags) THEN << >>
  ELSE frags[i] \o (IF i < Len(frags) THEN seps[i] ELSE << >>)
                \o Join(frags, seps, i + 1)

\* Payloads of up to MaxRecords fragments: one per line, or run together,
\* or mixed; and the same fragments as one JSON array.
Payloads ==
  UNION {
    {Join(frags, seps, 1) :
       frags \in [1..n -> Fragments],
       seps \in [1..(n - 1) -> {<<NL>>, << >>}]}
    \cup
    {<<"[">> \o Join(frags, [i \in 1..(n - 1) |-> <<",">>], 1) \o <<"]">> :
       frags \in [1..n -> Fragments]}
    : n \in 1..MaxRecords }

\* String.prototype.includes
Includes(text, pattern) ==
  \E i \in 1..(Len(text) - Len(pattern) + 1) :
    SubSeq(text, i, i + Len(pattern) - 1) = pattern

\* String.prototype.indexOf(ch, from), positions counted from 1; 0 if absent
IndexOf(text, ch, from) ==
  LET at == {i \in from..Len(text) : text[i] = ch}
  IN IF at = {} THEN 0 ELSE CHOOSE i \in at : \A j \in at : i <= j

\* String.prototype.trim
Trim(text) ==
  LET inked == {i \in 1..Len(text) : text[i] # NL}
  IN IF inked = {} THEN << >>
     ELSE SubSeq(text, CHOOSE i \in inked : \A j \in inked : i <= j,
                       CHOOSE i \in inked : \A j \in inked : i >= j)

RECURSIVE SplitOn(_, _)
\* String.prototype.split(separator)
SplitOn(text, separator) ==
  LET i == IndexOf(text, separator, 1)
  IN IF i = 0 THEN <<text>>
     ELSE <<SubSeq(text, 1, i - 1)>>
            \o SplitOn(SubSeq(text, i + 1, Len(text)), separator)

\* text.split('\n')
Split(text) == SplitOn(text, NL)

\* text.split('\n').filter(line => line.trim())
Lines(text) == SelectSeq(Split(text), LAMBDA line : Trim(line) # << >>)

IsObject(text) ==
  Len(text) = 3 /\ text[1] = "{" /\ text[2] \in {"p", "q"} /\ text[3] = "}"

ObjectOf(text) == [post_id |-> text[2] = "p"]

\* [ object , object ... ]
IsArray(text) ==
  /\ Len(text) >= 2 /\ text[1] = "[" /\ text[Len(text)] = "]"
  /\ \/ Len(text) = 2
     \/ /\ (Len(text) - 1) % 4 = 0
        /\ \A k \in 1..((Len(text) - 1) \div 4) :
             /\ IsObject(SubSeq(text, 4 * k - 2, 4 * k))
             /\ text[4 * k + 1] = (IF 4 * k + 1 = Len(text) THEN "]" ELSE ",")

ItemsOf(text) ==
  [k \in 1..((Len(text) - 1) \div 4) |-> ObjectOf(SubSeq(text, 4 * k - 2, 4 * k))]

\* JSON.parse: ok is false where it throws; an object comes back as itself
\* (isArray false, one item), an array with its items
JsonParse(text) ==
  LET t == Trim(text)
  IN IF IsObject(t)
       THEN [ok |-> TRUE, isArray |-> FALSE, items |-> <<ObjectOf(t)>>]
     ELSE IF IsArray(t)
       THEN [ok |-> TRUE, isArray |-> TRUE, items |-> ItemsOf(t)]
     ELSE [ok |-> FALSE, isArray |-> FALSE, items |-> << >>]

RECURSIVE Flatten(_)
Flatten(values) ==
  IF values = << >> THEN << >>
  ELSE Head(values).items \o Flatten(Tail(values))

Returned(records) == [outcome |-> "returned", records |-> records]
Threw == [outcome |-> "threw", records |-> << >>]
NeverReturns == [outcome |-> "never returns", records |-> << >>]

\* The status poll got the records themselves (the text holds "post_id"):
\* each line is parsed on its own, lines that do not parse are skipped, and
\* the values with a post_id are kept.
ParseSnapshotText(responseText) ==
  LET parsedLines == [i \in 1..Len(Lines(Trim(responseText))) |->
                        JsonParse(Lines(Trim(responseText))[i])]
      posts == SelectSeq(parsedLines,
                         LAMBDA v : v.ok /\ ~v.isArray /\ v.items[1].post_id)
  IN Returned(Flatten(posts))

\* end of the brace-counting scan that starts at the brace at position
\* start: the first position where the braces balance, 0 when they never do
MatchEnd(text, start) ==
  LET depth(i) == Cardinality({j \in start..i : text[j] = "{"})
                    - Cardinality({j \in start..i : text[j] = "}"})
      ends == {i \in start..Len(text) : depth(i) = 0}
  IN IF ends = {} THEN 0 ELSE CHOOSE i \in ends : \A j \in ends : i <= j

RECURSIVE ExtractObjects(_, _)
\* "Last resort": from currentPos, find the next brace, scan to its match,
\* parse the piece, go on behind it.  When the braces never balance endPos
\* stays on the brace and the loop finds the same brace again, for ever.
ExtractObjects(text, currentPos) ==
  LET nextBrace == IndexOf(text, "{", currentPos)
      end == MatchEnd(text, nextBrace)
      obj == JsonParse(SubSeq(text, nextBrace, end))
      rest == ExtractObjects(text, end + 1)
  IN IF currentPos > Len(text) \/ nextBrace = 0
       THEN [loops |-> FALSE, objects |-> << >>]
     ELSE IF end = 0
       THEN [loops |-> TRUE, objects |-> << >>]
     ELSE [loops |-> rest.loops,
           objects |-> (IF obj.ok THEN <<obj>> ELSE << >>) \o rest.objects]

\* the first attempt on the data text: line by line when objects are run
\* together, as an array when it looks like one, else as one document
StructuredParse(cleanDataText) ==
  IF Includes(cleanDataText, <<"}", "{">>)
    THEN LET lines == Lines(cleanDataText)
             values == [i \in 1..Len(lines) |-> JsonParse(lines[i])]
         IN IF \A i \in 1..Len(lines) : values[i].ok
              THEN Returned(Flatten(values)) ELSE Threw
  ELSE IF cleanDataText # << >> /\ cleanDataText[1] = "["
          /\ Includes(cleanDataText, <<"}", "]">>)
    THEN \* the array part runs from the first [ to the last ], which is the
         \* trimmed text itself here
         IF JsonParse(cleanDataText).ok
           THEN Returned(JsonParse(cleanDataText).items) ELSE Threw
  ELSE IF JsonParse(cleanDataText).ok
    THEN Returned(JsonParse(cleanDataText).items) ELSE Threw

\* The data of a completed snapshot.
ParseDataText(dataText) ==
  LET first == StructuredParse(Trim(dataText))
      extracted == ExtractObjects(dataText, 1)
  IN IF first.outcome = "returned" THEN first
     ELSE IF extracted.loops THEN NeverReturns
     ELSE IF extracted.objects # << >> THEN Returned(Flatten(extracted.objects))
     ELSE Threw

ParseSnapshot ==
  /\ parser = "none"
  /\ Includes(Trim(payload), <<"p">>)
  /\ parser' = "snapshot"
  /\ parsed' = ParseSnapshotText(payload)
  /\ UNCHANGED <<payload, nonParseVars>>

ParseData ==
  /\ parser = "none"
  /\ parser' = "data"
  /\ parsed' = ParseDataText(payload)
  /\ UNCHANGED <<payload, nonParseVars>>

ParseInit ==
  /\ ChatIdle /\ BridgeIdle /\ StageIdle /\ CacheIdle /\ ProfileIdle
  /\ KeyIdle /\ FurtherIdle
  /\ payload \in Payloads /\ parser = "none" /\ parsed = Returned(<< >>)

ParseNext == ParseSnapshot \/ ParseData

ParseSpec == ParseInit /\ [][ParseNext]_vars

\* the records of a text that parse on their own, in order
ParseableRecords(text) ==
  LET at == {i \in 1..(Len(text) - 2) : IsObject(SubSeq(text, i, i + 2))}
      nth(k) == CHOOSE i \in at : Cardinality({j \in at : j < i}) = k - 1
  IN [k \in 1..Cardinality(at) |-> ObjectOf(SubSeq(text, nth(k), nth(k) + 2))]

Posts(records) == SelectSeq(records, LAMBDA r : r.post_id)

\* C18: for a payload that is newline-delimited JSON, one JSON document or
\* a malformed concatenation of objects, parsing returns, and what it
\* returns holds every record that parses on its own (stated here for the
\* records that are posts); it never throws.
C18_ParsingReturnsEveryRecord ==
  parser # "none" =>
    /\ parsed.outcome = "returned"
    /\ Posts(parsed.records) = Posts(ParseableRecords(payload))

(***************************************************************************)
(* saveProfile and deleteProfile on table profiles (user_id unique).  The  *)
(* select and the write of saveProfile are separate statements, so calls   *)
(* interleave between them.                                                *)
(***************************************************************************)

\* displayName, email, personaId of a saveProfile call
ProfileArgs ==
  {[display_name |-> "Ann", email |-> "a@x", persona_id |-> "p1"],
   [display_name |-> "Bob", email |-> "b@x", persona_id |-> "p2"]}

RowsOf(uid) == {r \in profiles : r.user_id = uid}

\* profileData; updated_at is the time of the call, which differs from call
\* to call (the call's number stands for it)
ProfileData(c, uid, args) ==
  [user_id |-> uid, display_name |-> args.display_name, email |-> args.email,
   persona_id |-> args.persona_id, updated_at |-> c]

UniqueViolation_None(uid) == FALSE

\* user_id uuid not null unique
UniqueViolation(uid) == RowsOf(uid) # {}

\* ensureUserExists and the select of the existing profile
SaveProfileSelect(c) ==
  /\ pcall[c].pc = "idle"
  /\ \E uid \in Users, args \in ProfileArgs, selectError \in BOOLEAN :
       pcall' = [pcall EXCEPT ![c] =
                   [pc |-> IF selectError THEN "threw" ELSE "write",
                    op |-> "save", uid |-> uid, args |-> args,
                    existingProfile |-> ~selectError /\ RowsOf(uid) # {}]]
  /\ UNCHANGED <<profiles, nonProfileVars>>

\* update ... where user_id = uid (.single() fails when no row is left), or
\* insert; any error is rethrown
SaveProfileWrite(c) ==
  /\ pcall[c].pc = "write"
  /\ LET uid == pcall[c].uid
         data == ProfileData(c, uid, pcall[c].args)
         done(pc) == pcall' = [pcall EXCEPT ![c].pc = pc]
     IN \/ done("threw") /\ UNCHANGED profiles
        \/ /\ pcall[c].existingProfile /\ RowsOf(uid) # {}
           /\ profiles' = (profiles \ RowsOf(uid))
                            \cup {data @@ [id |-> r.id] : r \in RowsOf(uid)}
           /\ done("returned")
        \/ /\ pcall[c].existingProfile /\ RowsOf(uid) = {}
           /\ done("threw") /\ UNCHANGED profiles
        \/ /\ ~pcall[c].existingProfile /\ ~UniqueViolation(uid)
           /\ profiles' = profiles \cup {data @@ [id |-> c]}
           /\ done("returned")
        \/ /\ ~pcall[c].existingProfile /\ UniqueViolation(uid)
           /\ done("threw") /\ UNCHANGED profiles
  /\ UNCHANGED nonProfileVars

\* delete from profiles where user_id = uid
DeleteProfile(c) ==
  /\ pcall[c].pc = "idle"
  /\ \E uid \in Users, deleteError \in BOOLEAN :
       /\ pcall' = [pcall EXCEPT ![c] =
                      [IdleProfileCall EXCEPT
                         !.pc = IF deleteError THEN "threw" ELSE "returned",
                         !.op = "delete", !.uid = uid]]
       /\ profiles' = IF deleteError THEN profiles ELSE profiles \ RowsOf(uid)
  /\ UNCHANGED nonProfileVars

ProfileInit ==
  /\ ChatIdle /\ BridgeIdle /\ StageIdle /\ CacheIdle /\ ParseIdle
  /\ KeyIdle /\ FurtherIdle
  /\ ProfileIdle

ProfileNext ==
  \/ \E c \in ProfileCalls : SaveProfileSelect(c)
  \/ \E c \in ProfileCalls : SaveProfileWrite(c)
  \/ \E c \in ProfileCalls : DeleteProfile(c)

ProfileSpec == ProfileInit /\ [][ProfileNext]_vars

\* what a saveProfile call is to store: every column it sets but the time
StoredProfile(r) ==
  [user_id |-> r.user_id, display_name |-> r.display_name,
   email |-> r.email, persona_id |-> r.persona_id]

OneRowPerUser == \A uid \in Users : Cardinality(RowsOf(uid)) <= 1

\* the write of call c succeeds in this step
SaveReturns(c) == pcall[c].pc = "write" /\ pcall'[c].pc = "returned"

\* a successful saveProfile leaves exactly its arguments as the profile of
\* the user, and when they were stored already the profile stays as it was
SaveIsUpsert(c) ==
  LET uid == pcall[c].uid
      mine == StoredProfile(ProfileData(c, uid, pcall[c].args))
  IN SaveReturns(c) =>
       /\ {StoredProfile(r) : r \in {x \in profiles' : x.user_id = uid}} = {mine}
       /\ {x \in profiles' : x.user_id # uid} = {x \in profiles : x.user_id # uid}
       /\ (\E r \in RowsOf(uid) : StoredProfile(r) = mine)
            => {[id |-> r.id, profile |-> StoredProfile(r)] : r \in profiles'}
                 = {[id |-> r.id, profile |-> StoredProfile(r)] : r \in profiles}

\* C19: after any sequence of saveProfile and deleteProfile calls,
\* interleaved ones included, there is at most one profile row per user id;
\* and repeating a saveProfile call with the same arguments leaves the same
\* stored profile as performing it once (updated_at, the time of the last
\* write, aside).
C19_OneProfilePerUserIdempotentSave ==
  /\ []OneRowPerUser
  /\ [][\A c \in ProfileCalls : SaveIsUpsert(c)]_vars

\* two calls raced to insert the first profile of a user, one of them
\* failed on the unique user_id, and the profile that is stored has been
\* saved a second time with the same arguments
C19_Witness ==
  \E c, d, e \in ProfileCalls :
    /\ c # d /\ d # e /\ c # e
    /\ pcall[c].op = "save" /\ pcall[d].op = "save" /\ pcall[e].op = "save"
    /\ pcall[c].uid = pcall[d].uid /\ pcall[d].uid = pcall[e].uid
    /\ pcall[c].pc = "returned" /\ ~pcall[c].existingProfile
    /\ pcall[d].pc = "threw" /\ ~pcall[d].existingProfile
    /\ pcall[e].pc = "returned" /\ pcall[e].existingProfile
    /\ pcall[e].args = pcall[c].args
    /\ \E r \in profiles : r.id = c /\ r.updated_at = e

(***************************************************************************)
(* GET /api/audio/s3/<key> (proxy) and GET /api/audio/sign/:s3Key.  A key  *)
(* is a sequence of tokens: the separator "/", a run of name characters    *)
(* "a", and the endings ".pcm", ".mp4".                                    *)
(***************************************************************************)

KeyTokens == {"/", "a", ".pcm", ".mp4"}

MediaKeys == UNION {[1..n -> KeyTokens] : n \in 1..MaxKeyLen}

\* String.prototype.endsWith
EndsWith(text, token) == text # << >> /\ text[Len(text)] = token

ValidKey_AnyFile(s3Key) == Len(SplitOn(s3Key, "/")) = 3

\* const keyParts = s3Key.split('/');
\* keyParts.length !== 3 || !keyParts[2].endsWith('.pcm') is rejected
ValidKey(s3Key) ==
  LET keyParts == SplitOn(s3Key, "/")
  IN Len(keyParts) = 3 /\ EndsWith(keyParts[3], ".pcm")

Rejected400 == [by |-> "none", status |-> 400, signed |-> FALSE, fetched |-> FALSE]

\* GET /api/audio/sign/:s3Key: 400, or the signed URL (500 when signing
\* throws)
SignEndpoint ==
  /\ served.by = "none"
  /\ IF ~ValidKey(mkey)
       THEN served' = [Rejected400 EXCEPT !.by = "sign"]
       ELSE \E signingThrows \in BOOLEAN :
              served' = [by |-> "sign", signed |-> TRUE, fetched |-> FALSE,
                         status |-> IF signingThrows THEN 500 ELSE 200]
  /\ UNCHANGED <<mkey, nonKeyVars>>

\* GET /api/audio/s3/<key>: 400, or sign, fetch and stream; a failed fetch
\* passes the store's status on
ProxyEndpoint ==
  /\ served.by = "none"
  /\ IF ~ValidKey(mkey)
       THEN served' = [Rejected400 EXCEPT !.by = "proxy"]
       ELSE \E fetchOutcome \in {"signingThrows", "notFound", "streamed"} :
              served' = [by |-> "proxy", signed |-> TRUE,
                         fetched |-> fetchOutcome # "signingThrows",
                         status |-> CASE fetchOutcome = "signingThrows" -> 500
                                      [] fetchOutcome = "notFound" -> 404
                                      [] fetchOutcome = "streamed" -> 200]
  /\ UNCHANGED <<mkey, nonKeyVars>>

KeyInit ==
  /\ ChatIdle /\ BridgeIdle /\ StageIdle /\ CacheIdle /\ ParseIdle
  /\ ProfileIdle /\ FurtherIdle
  /\ mkey \in MediaKeys /\ served = NotServed

KeyNext == SignEndpoint \/ ProxyEndpoint

KeySpec == KeyInit /\ [][KeyNext]_vars

Separators(s3Key) == {i \in 1..Len(s3Key) : s3Key[i] = "/"}

\* owner/chat/file.ext: two separators, hence three segments, and the file
\* ends in one of the endings
HasShape(s3Key, endings) ==
  /\ Cardinality(Separators(s3Key)) = 2
  /\ s3Key[Len(s3Key)] \in endings

Sends == 1..MaxSends

\* a message of state.messages; content is the turn whose text it shows
UiMessage(type, content, shows) ==
  [type |-> type, content |-> content, shows |-> shows]

\* loadChat.fulfilled: messages.map(msg => ({type: msg.role === 'user' ?
\* 'user' : 'bot', content: msg.content, ...}))
FromDatabase(messages) ==
  [i \in 1..Len(messages) |->
     UiMessage(IF messages[i].role = "user" THEN "user" ELSE "bot",
               messages[i].content, "text")]

\* [...state.messages].reverse().find(msg => msg.type === 'user'), as an
\* index; 0 when there is none
LastUserMessage(messages) ==
  LET users == {i \in 1..Len(messages) : messages[i].type = "user"}
  IN IF users = {} THEN 0 ELSE CHOOSE i \in users : \A j \in users : j <= i

\* handleSendText / mediaRecorder.onstop: addUserMessage, then the thunk is
\* dispatched and its pending action reduced.  handleSendText returns early
\* while isProcessing; the record button is disabled while isProcessing.
HandleSend ==
  \E n \in Sends, kind \in {"text", "audio"} :
    /\ ~chatSlice.isProcessing
    /\ sendReq[n].pc = "idle"
    /\ \A k \in 1..(n - 1) : sendReq[k].pc # "idle"
    /\ chatSlice' =
         [chatSlice EXCEPT
            !.messages = Append(@, UiMessage("user", n,
                           IF kind = "text" THEN "text"
                                            ELSE "Processing audio...")),
            !.isProcessing = TRUE]
    /\ sendReq' = [sendReq EXCEPT ![n] = [pc |-> "pending", kind |-> kind,
                                          ok |-> FALSE]]
    /\ UNCHANGED <<chatTable, loadReq, nonClientVars>>

\* The turn on the server: it fails, or answers 200 after saveConversation
\* has appended the turn's two messages (the UPDATE of the row is then
\* published to the subscription) or has failed to.
ServeSend(n) ==
  /\ sendReq[n].pc = "pending"
  /\ \E result \in {"failed", "saved", "unsaved"} :
       /\ sendReq' = [sendReq EXCEPT ![n].pc = "responded",
                                     ![n].ok = (result # "failed")]
       /\ IF result = "saved"
            THEN /\ chatTable' = chatTable \o
                      << NewMessage(n), AssistantMessage(n, PersonaRows[1]) >>
                 /\ loadReq' = [loadReq EXCEPT ![n].pc = "event"]
            ELSE UNCHANGED <<chatTable, loadReq>>
  /\ UNCHANGED <<chatSlice, nonClientVars>>

\* sendTextMessage.fulfilled / sendAudioMessage.fulfilled on state.messages:
\* the audio case rewrites the last user message, both push the reply
SendFulfilledMessages(state, n, kind) ==
  LET last == LastUserMessage(state.messages)
      rewritten == IF kind = "audio" /\ last # 0
                     THEN [state.messages EXCEPT ![last] = UiMessage("user", n, "text")]
                     ELSE state.messages
  IN Append(rewritten, UiMessage("bot", n, "text"))

\* sendTextMessage.rejected pushes an error reply; sendAudioMessage.rejected
\* rewrites the last user message
SendRejected(state, n, kind) ==
  LET last == LastUserMessage(state.messages)
  IN IF kind = "text"
       THEN Append(state.messages, UiMessage("bot", n, "Sorry, there was an error"))
       ELSE IF last = 0 THEN state.messages
            ELSE [state.messages EXCEPT
                    ![last] = [@ EXCEPT !.shows = "Error processing request"]]

\* The send thunk settles and its fulfilled or rejected action is reduced.
SendSettles(n) ==
  /\ sendReq[n].pc = "responded"
  /\ sendReq' = [sendReq EXCEPT ![n].pc = "settled"]
  /\ chatSlice' =
       [chatSlice EXCEPT
          !.isProcessing = FALSE,
          !.currentChatId = IF sendReq[n].ok /\ @ = Null THEN SeedChatId ELSE @,
          !.messages = IF sendReq[n].ok
                         THEN SendFulfilledMessages(chatSlice, n, sendReq[n].kind)
                         ELSE SendRejected(chatSlice, n, sendReq[n].kind)]
  /\ UNCHANGED <<chatTable, loadReq, nonClientVars>>

\* handleChatUpdate for the UPDATE event of turn n: the loaded chat is
\* reloaded (loadChat.pending is reduced at once).
HandleChatUpdate(n) ==
  /\ loadReq[n].pc = "event"
  /\ IF chatSlice.currentChatId = SeedChatId
       THEN /\ loadReq' = [loadReq EXCEPT ![n].pc = "pending"]
            /\ chatSlice' = [chatSlice EXCEPT !.isProcessing = TRUE]
       ELSE /\ loadReq' = [loadReq EXCEPT ![n].pc = "settled"]
            /\ UNCHANGED chatSlice
  /\ UNCHANGED <<chatTable, sendReq, nonClientVars>>

\* GET /api/chats/:uid/:chatId reads the row, or fails.
ServeLoad(n) ==
  /\ loadReq[n].pc = "pending"
  /\ \E ok \in BOOLEAN :
       loadReq' = [loadReq EXCEPT ![n] = [pc |-> "responded", ok |-> ok,
                                          messages |-> IF ok THEN chatTable ELSE << >>]]
  /\ UNCHANGED <<chatSlice, chatTable, sendReq, nonClientVars>>

\* loadChat.fulfilled replaces state.messages; loadChat.rejected only
\* clears isProcessing.
LoadChatSettles(n) ==
  /\ loadReq[n].pc = "responded"
  /\ loadReq' = [loadReq EXCEPT ![n].pc = "settled"]
  /\ chatSlice' =
       IF loadReq[n].ok
         THEN [chatSlice EXCEPT !.isProcessing = FALSE,
                                !.currentChatId = SeedChatId,
                                !.messages = FromDatabase(loadReq[n].messages)]
         ELSE [chatSlice EXCEPT !.isProcessing = FALSE]
  /\ UNCHANGED <<chatTable, sendReq, nonClientVars>>

\* The chat c0 has been loaded and nothing is in flight.
ClientInit ==
  /\ ChatIdle /\ BridgeIdle /\ StageIdle /\ CacheIdle /\ ParseIdle
  /\ ProfileIdle /\ KeyIdle /\ PollIdle /\ SliceIdle
  /\ chatTable = SeedMessages
  /\ chatSlice = [messages |-> FromDatabase(SeedMessages),
                  currentChatId |-> SeedChatId, isProcessing |-> FALSE]
  /\ sendReq = [n \in Sends |-> IdleSend]
  /\ loadReq = [n \in Sends |-> IdleLoad]

ClientNext ==
  \/ HandleSend
  \/ \E n \in Sends : ServeSend(n)
  \/ \E n \in Sends : SendSettles(n)
  \/ \E n \in Sends : HandleChatUpdate(n)
  \/ \E n \in Sends : ServeLoad(n)
  \/ \E n \in Sends : LoadChatSettles(n)

ClientSpec == ClientInit /\ [][ClientNext]_vars

InFlight(r) == r.pc \in {"pending", "responded"}

\* every turn sent has settled on the client, and so has its reload
TurnsCompleted ==
  /\ sendReq[1].pc = "settled"
  /\ \A n \in Sends : sendReq[n].pc \in {"idle", "settled"}
  /\ \A n \in Sends : loadReq[n].pc \in {"idle", "settled"}

\* the positions of state.messages that show stored message m
Shown(m) ==
  {j \in 1..Len(chatSlice.messages) :
     /\ chatSlice.messages[j].type = (IF m.role = "user" THEN "user" ELSE "bot")
     /\ chatSlice.messages[j].content = m.content
     /\ chatSlice.messages[j].shows = "text"}

\* C23 (as claimed): once the turns on the loaded chat have completed on
\* the client and their reloads succeeded, every stored message of the chat
\* is displayed exactly once, whatever the order in which the loadChat
\* result and the send result were reduced.
C23_EachStoredMessageShownOnce ==
  (TurnsCompleted /\ \A n \in Sends : loadReq[n].pc = "settled" => loadReq[n].ok)
    => \A i \in 1..Len(chatTable) : Cardinality(Shown(chatTable[i])) = 1

\* C29 (as claimed): isProcessing is true whenever a sendTextMessage,
\* sendAudioMessage or loadChat request is in flight.
C29_ProcessingWhileInFlight ==
  (\E n \in Sends : InFlight(sendReq[n]) \/ InFlight(loadReq[n]))
    => chatSlice.isProcessing

(***************************************************************************)
(* waitForCrawlCompletion: the polling loop on the snapshot's status, in   *)
(* seconds since startTime, and the retrieval of the completed payload.    *)
(***************************************************************************)

\* Seconds a fetch of the loop can take.
FetchTimes == {0, 1, 2}

\* What a poll of the status endpoint can answer.
PollAnswers ==
  {"fetchFailed", "notOk", "invalidJson", "posts", "completed", "failed",
   "running"}

\* What the parsing of a status body that holds posts can give.
PostsResults ==
  {ParseSnapshotText(t) : t \in {x \in Payloads : Includes(Trim(x), <<"p">>)}}

\* What the parsing of the completed payload can give.
DataResults == {ParseDataText(t) : t \in Payloads}

\* while (Date.now() - startTime < maxWaitTime), else the timeout error
LoopCheck ==
  /\ wait.pc = "check"
  /\ wait' = [wait EXCEPT !.pc = IF wait.elapsed < maxWaitTime
                                   THEN "poll" ELSE "timeout"]
  /\ UNCHANGED nonPollVars

\* One fetch of the snapshot's status and what the loop body does with it:
\* an error or an unreadable answer is rethrown, a body holding posts is
\* returned at once, completed goes on to the data, failed throws, any
\* other status waits.
Poll ==
  /\ wait.pc = "poll"
  /\ \E took \in FetchTimes, answer \in PollAnswers :
       LET W == [wait EXCEPT !.elapsed = @ + took]
       IN CASE answer \in {"fetchFailed", "notOk", "invalidJson", "failed"} ->
                 wait' = [W EXCEPT !.pc = "threw"]
            [] answer = "posts" ->
                 \E posts \in PostsResults :
                   wait' = [W EXCEPT !.pc = "returned", !.result = posts]
            [] answer = "completed" -> wait' = [W EXCEPT !.pc = "data"]
            [] answer = "running" -> wait' = [W EXCEPT !.pc = "sleep"]
  /\ UNCHANGED nonPollVars

\* await new Promise(resolve => setTimeout(resolve, pollInterval))
Sleep ==
  /\ wait.pc = "sleep"
  /\ wait' = [wait EXCEPT !.pc = "check", !.elapsed = @ + pollInterval]
  /\ UNCHANGED nonPollVars

\* The fetch of the completed payload and its parsing: the records are
\* returned, or an error is thrown, or the extraction of the objects by
\* brace counting never ends.
FetchData ==
  /\ wait.pc = "data"
  /\ \/ wait' = [wait EXCEPT !.pc = "threw"]
     \/ \E took \in FetchTimes, data \in DataResults :
          wait' = [wait EXCEPT
                     !.elapsed = @ + took,
                     !.result = data,
                     !.pc = CASE data.outcome = "returned" -> "returned"
                              [] data.outcome = "threw" -> "threw"
                              [] OTHER -> "extracting"]
  /\ UNCHANGED nonPollVars

PollInit ==
  /\ ChatIdle /\ BridgeIdle /\ StageIdle /\ CacheIdle /\ ParseIdle
  /\ ProfileIdle /\ KeyIdle /\ ClientIdle /\ SliceIdle
  /\ wait = [WaitIdle EXCEPT !.pc = "check"]

PollNext == LoopCheck \/ Poll \/ Sleep \/ FetchData

PollSpec == PollInit /\ [][PollNext]_vars

\* waitForCrawlCompletion has returned or thrown
WaitEnded == wait.pc \in {"returned", "threw", "timeout"}

\* C26 (as claimed): waitForCrawlCompletion always terminates: as long as
\* it has neither returned nor thrown a step of it is still to come; it
\* polls only before the deadline and throws the timeout error only once
\* the deadline has elapsed.
C26_WaitAlwaysTerminates ==
  /\ WaitEnded \/ ENABLED PollNext
  /\ wait.pc = "poll" => wait.elapsed < maxWaitTime
  /\ wait.pc = "timeout" => wait.elapsed >= maxWaitTime

(***************************************************************************)
(* The browser client's profile slice: the loadProfile, saveProfile and    *)
(* deleteProfile thunks, the profile endpoints that answer them and the    *)
(* reducers that take their outcomes.  One request is in flight at a time. *)
(***************************************************************************)
\* reading a property an object does not have
Undefined == "undefined"

\* JavaScript truthiness of a string, null or undefined value
Truthy(v) == v \notin {Undefined, Null, ""}

\* v || d
OrElse(v, d) == IF Truthy(v) THEN v ELSE d

\* localStorage holds the id the slice's initialState stored
getUserId == ClientUser

DisplayNames == {"", "Ann"}
Emails == {"", "ann", "a@b.c"}
ProfilePersonaIds == {Null, "p1"}

\* /^[^\s@]+@[^\s@]+\.[^\s@]+$/ on the addresses of Emails
EmailRegexTest(email) == email = "a@b.c"

\* row.name for a row of table profiles (id, user_id, display_name, email,
\* persona_id, is_saved_to_supabase, created_at, updated_at)
Column(row, name) == IF name \in DOMAIN row THEN row[name] ELSE Undefined

\* the profile object both endpoints build from a row; JSON carries no
\* property whose value is undefined, so the client reads it as undefined
ProfileJson(row) ==
  [uid |-> Column(row, "uid"),
   displayName |-> Column(row, "display_name"),
   email |-> Column(row, "email"),
   personaId |-> Column(row, "persona_id"),
   isSavedToSupabase |-> Column(row, "is_saved_to_supabase")]

NoProfileJson ==
  [uid |-> Undefined, displayName |-> Undefined, email |-> Undefined,
   personaId |-> Undefined, isSavedToSupabase |-> FALSE]

\* what loadProfile returns on 404
EmptyProfile ==
  [uid |-> getUserId, displayName |-> "", email |-> "", personaId |-> Null,
   isSavedToSupabase |-> FALSE]

Pending(kind, args) ==
  /\ profileReq' = [kind |-> kind, pc |-> "pending", args |-> args,
                    status |-> 0, profile |-> NoProfileJson]
  /\ profileSlice' = [profileSlice EXCEPT !.isLoading = TRUE]
  /\ UNCHANGED <<profileRow, nonSliceVars>>

\* dispatch(loadProfile()): loadProfile.pending
LoadProfilePending ==
  /\ profileReq.pc = "idle"
  /\ Pending("load", NoProfileArgs)

\* dispatch(saveProfile({displayName, email, personaId})): saveProfile.pending
SaveProfilePending ==
  /\ profileReq.pc = "idle"
  /\ \E displayName \in DisplayNames, email \in Emails,
        personaId \in ProfilePersonaIds :
       Pending("save", [displayName |-> displayName, email |-> email,
                        personaId |-> personaId])

\* dispatch(deleteProfile()): deleteProfile.pending
DeleteProfilePending ==
  /\ profileReq.pc = "idle"
  /\ Pending("delete", NoProfileArgs)

Answer(status, profile) ==
  profileReq' = [profileReq EXCEPT !.pc = "answered", !.status = status,
                                   !.profile = profile]

\* POST /api/profile/save with uid = getUserId(); db.saveProfile updates or
\* inserts the user's row and returns it as selected
ProfileSaveEndpoint ==
  /\ profileReq.pc = "pending" /\ profileReq.kind = "save"
  /\ LET args == profileReq.args
     IN IF args.email = "" \/ ~EmailRegexTest(args.email)
          THEN Answer(400, NoProfileJson) /\ UNCHANGED profileRow
          ELSE \E personaFound \in BOOLEAN, saved \in BOOLEAN :
                 IF args.personaId # Null /\ ~personaFound
                   THEN Answer(400, NoProfileJson) /\ UNCHANGED profileRow
                   ELSE IF ~saved
                     THEN Answer(500, NoProfileJson) /\ UNCHANGED profileRow
                     ELSE /\ profileRow' =
                               [found |-> TRUE, user_id |-> getUserId,
                                display_name |-> args.displayName,
                                email |-> args.email,
                                persona_id |-> args.personaId,
                                is_saved_to_supabase |-> TRUE]
                          /\ Answer(200, ProfileJson(profileRow'))
  /\ UNCHANGED <<profileSlice, nonSliceVars>>

\* GET /api/profile/:uid
ProfileGetEndpoint ==
  /\ profileReq.pc = "pending" /\ profileReq.kind = "load"
  /\ \/ Answer(500, NoProfileJson)
     \/ IF profileRow.found
          THEN Answer(200, ProfileJson(profileRow))
          ELSE Answer(404, NoProfileJson)
  /\ UNCHANGED <<profileSlice, profileRow, nonSliceVars>>

\* DELETE /api/profile/:uid
ProfileDeleteEndpoint ==
  /\ profileReq.pc = "pending" /\ profileReq.kind = "delete"
  /\ \/ Answer(500, NoProfileJson) /\ UNCHANGED profileRow
     \/ IF profileRow.found
          THEN Answer(200, NoProfileJson) /\ profileRow' = NoProfileRow
          ELSE Answer(404, NoProfileJson) /\ UNCHANGED profileRow
  /\ UNCHANGED <<profileSlice, nonSliceVars>>

\* fetch itself fails: the thunk's catch rejects with the error's message
FetchFails ==
  /\ profileReq.pc = "pending"
  /\ profileReq' = [profileReq EXCEPT !.pc = "failed"]
  /\ UNCHANGED <<profileSlice, profileRow, nonSliceVars>>

\* the fields every fulfilled load and save copies from the payload
WithPayload(state, profile) ==
  [state EXCEPT !.displayName = OrElse(profile.displayName, ""),
                !.email = OrElse(profile.email, ""),
                !.personaId = OrElse(profile.personaId, Null),
                !.isSavedToSupabase = profile.isSavedToSupabase]

\* loadProfile.fulfilled
LoadProfileFulfilled(state, profile) ==
  LET loaded == [state EXCEPT !.isLoading = FALSE]
      kept   == IF Truthy(profile.uid)
                  THEN [loaded EXCEPT !.userId = profile.uid]
                  ELSE loaded
  IN WithPayload(kept, profile)

\* loadProfile.rejected
LoadProfileRejected(state) ==
  [state EXCEPT !.isLoading = FALSE, !.userId = getUserId]

\* saveProfile.fulfilled
SaveProfileFulfilled(state, profile) ==
  WithPayload([state EXCEPT !.isLoading = FALSE, !.userId = profile.uid],
              profile)

\* saveProfile.rejected and deleteProfile.rejected
Rejected(state) == [state EXCEPT !.isLoading = FALSE]

\* deleteProfile.fulfilled
DeleteProfileFulfilled(state) ==
  [InitialProfileState EXCEPT !.userId = state.userId]

Answered(kind) ==
  /\ profileReq.pc \in {"answered", "failed"}
  /\ profileReq.kind = kind
  /\ profileReq' = NoProfileReq
  /\ UNCHANGED <<profileRow, nonSliceVars>>

Ok == profileReq.pc = "answered" /\ profileReq.status = 200

\* the loadProfile thunk from its response on, and the reducer
LoadProfileSettles ==
  /\ Answered("load")
  /\ profileSlice' =
       IF Ok THEN LoadProfileFulfilled(profileSlice, profileReq.profile)
       ELSE IF profileReq.pc = "answered" /\ profileReq.status = 404
         THEN LoadProfileFulfilled(profileSlice, EmptyProfile)
         ELSE LoadProfileRejected(profileSlice)

\* the saveProfile thunk from its response on, and the reducer
SaveProfileSettles ==
  /\ Answered("save")
  /\ profileSlice' =
       IF Ok THEN SaveProfileFulfilled(profileSlice, profileReq.profile)
             ELSE Rejected(profileSlice)

\* the deleteProfile thunk from its response on, and the reducer
DeleteProfileSettles ==
  /\ Answered("delete")
  /\ profileSlice' =
       IF Ok THEN DeleteProfileFulfilled(profileSlice)
             ELSE Rejected(profileSlice)

SliceInit ==
  /\ ChatIdle /\ BridgeIdle /\ StageIdle /\ CacheIdle /\ ParseIdle
  /\ ProfileIdle /\ KeyIdle /\ ClientIdle /\ PollIdle
  /\ profileSlice = InitialProfileState
  /\ profileReq = NoProfileReq
  /\ profileRow \in {NoProfileRow, SeedProfileRow}

SliceNext ==
  \/ LoadProfilePending
  \/ SaveProfilePending
  \/ DeleteProfilePending
  \/ ProfileSaveEndpoint
  \/ ProfileGetEndpoint
  \/ ProfileDeleteEndpoint
  \/ FetchFails
  \/ LoadProfileSettles
  \/ SaveProfileSettles
  \/ DeleteProfileSettles

SliceSpec == SliceInit /\ [][SliceNext]_vars

\* C30 (as claimed): the profile slice's userId is a non-empty identifier
\* in every reachable state, whatever loadProfile, saveProfile and
\* deleteProfile outcomes the server produced.
C30_UserIdAlwaysSet == Truthy(profileSlice.userId)
====
